---- MODULE Spec2Model ----
(***************************************************************************)
(* Model of the incremental enrichment-and-commit pipeline of              *)
(* src/backend/processing_pipeline.py together with the Firestore batch    *)
(* writer (src/backend/firebase_client.py), the statistics service         *)
(* (src/backend/event_statistics.py) and the CLI driver (src/main.py).     *)
(*                                                                         *)
(* Every pipeline instance p is one operating-system process running       *)
(* SimpleDataPipeline; the destination collection and the statistics       *)
(* snapshot are shared by all instances.  A run is cut into steps at its   *)
(* blocking network calls: source query, token request, one step per       *)
(* record (image GETs and upload), batch commit, notification fanout,      *)
(* statistics refresh, sleep.                                              *)
(***************************************************************************)
EXTENDS Integers, Sequences, FiniteSets, TLC

VARIABLES
    batch_size,       \* config.pipeline.batch_size (shared configuration)
    mode,             \* [p] --mode of the process: continuous | single | full-sync
    pc,               \* [p] position of the process in its code
    is_running,       \* [p] SimpleDataPipeline.is_running
    stop_requested,   \* [p] history: where the process was when the shutdown
                      \*     signal was delivered ("no": not delivered)
    cycles,           \* [p] history: number of runs started by the process
    documents,        \* [p] the list read from the source in the current run
    pos,              \* [p] 1-based index of the next element of documents
    staged,           \* [p] local list `staged`
    total_committed,  \* [p] local counter `total_committed`
    batch_number,     \* [p] local counter `batch_number`
    committed,        \* [p] result of the last store_documents_batch call
    returned,         \* [p] value returned by the last run (-1: none yet)
    stats,            \* [p] SimpleDataPipeline.stats
    log,              \* [p] history: external calls made by the current run
    dest,             \* destination collection: document id -> document
    snapshot,         \* event_statistics/current document
    responders,       \* responders collection: responder id -> document
    image_job,        \* one call of process_image_with_bbox: input and result
    fetch_job,        \* the image step for one record: input and result
    scroll,           \* one call of get_all_documents: the source's pages
                      \* and the position of the loop
    limit             \* the limit argument of process_recent_data and
                      \* process_all_data

vars == <<batch_size, image_job, fetch_job, scroll, limit, mode, pc, is_running, stop_requested, cycles, documents,
          pos, staged, total_committed, batch_number, committed, returned,
          stats, log, dest, snapshot, responders>>

(***************************************************************************)
(* Bounds of the model.                                                    *)
(***************************************************************************)
NDocs     == 3   \* source records that carry an identity
MaxBatch  == 2   \* largest configured batch size
MaxCycles == 2   \* polling cycles of one continuous process

Inst == {1, 2}

NoUrl == "none"
NoSnapshot == [total |-> -1]

(***************************************************************************)
(* The source store.  AllDocs is the content of the index in read order:   *)
(* one hit without an id followed by NDocs hits with an identity, the      *)
(* index name alternating between a data-stream name and a backing name.   *)
(***************************************************************************)
Missing == "<missing>"

Hit(k) ==
    [_index  |-> IF k % 2 = 0 THEN ".ds-ev" ELSE "ev",
     _id     |-> IF k = 0 THEN Missing ELSE ToString(k),
     _source |-> [image_url |-> NoUrl]]

AllDocs == [k \in 1..(NDocs + 1) |-> Hit(k - 1)]

Window(lo, hi) == SubSeq(AllDocs, lo, hi)

\* (mutant) a range query without "size": any number of hits
GetRecentDocumentsUnbounded(size) ==
    {Window(w[1], w[2]) :
        w \in {x \in (1..Len(AllDocs)) \X (0..Len(AllDocs)) : x[2] >= x[1] - 1}}

\* response["hits"]["hits"] of the range query with "size": size
GetRecentDocuments(size) ==
    {Window(w[1], w[2]) :
        w \in {x \in (1..Len(AllDocs)) \X (0..Len(AllDocs)) :
                  x[2] >= x[1] - 1 /\ x[2] - x[1] + 1 <= size}}

\* the list accumulated by the scroll over the whole index, which holds the
\* newest hits of AllDocs (older ones have been deleted)
GetAllDocuments == {Window(lo, Len(AllDocs)) : lo \in 1..(Len(AllDocs) + 1)}

RECURSIVE SumOver(_, _)
\* sum of f[i] over the finite set S of indices
SumOver(f, S) ==
    IF S = {} THEN 0
    ELSE LET i == CHOOSE x \in S : TRUE IN f[i] + SumOver(f, S \ {i})

(***************************************************************************)
(* SimpleElasticsearchClient.get_all_documents: the scroll.                *)
(***************************************************************************)
\* a response of search(scroll=...) or scroll(): its hits, and whether it
\* carries a "_scroll_id"
Page(hits, has_scroll_id) == [hits |-> hits, has_scroll_id |-> has_scroll_id]

\* one call: the responses the source will give, how many of them have been
\* received, the last one, and the list accumulated
Scroll(state, source, received, response, docs) ==
    [state |-> state, source |-> source, received |-> received,
     response |-> response, documents |-> docs]

NoScroll == Scroll("none", <<>>, 0, Page(<<>>, FALSE), <<>>)

\* `while scroll_id and len(response["hits"]["hits"]) > 0`
ScrollGoesOn(response) == response.has_scroll_id /\ Len(response.hits) > 0

(***************************************************************************)
(* Python helpers.                                                         *)
(***************************************************************************)
\* dict.get(key, default)
Get(v, default) == IF v = Missing THEN default ELSE v

\* `not value` for a string or an absent key
Falsy(v) == v = Missing \/ v = ""

\* str.lower() on the status strings that occur
Lower(s) ==
    CASE s = "Pending"  -> "pending"
      [] s = "Accepted" -> "accepted"
      [] OTHER          -> s

Min(a, b) == IF a <= b THEN a ELSE b
Max(a, b) == IF a >= b THEN a ELSE b

\* limit: Optional[int]
Limit(v) == [is_none |-> FALSE, value |-> v]

\* limit = None, as main.py calls the two functions
NoLimit == [is_none |-> TRUE, value |-> 0]

\* (mutant) the cap keeps the records read last
TruncateToLast(docs, lim) ==
    IF ~lim.is_none /\ lim.value > 0
    THEN SubSeq(docs, Max(1, Len(docs) - lim.value + 1), Len(docs))
    ELSE docs

\* `if limit is not None and limit > 0: documents = documents[:limit]`
Truncate(docs, lim) ==
    IF ~lim.is_none /\ lim.value > 0
    THEN SubSeq(docs, 1, Min(lim.value, Len(docs)))
    ELSE docs

(***************************************************************************)
(* Image enrichment of one record (the body of the per-record try block up *)
(* to, not including, staged.append).                                      *)
(***************************************************************************)
Responses == {"200", "200-empty", "404", "500", "raise"}

\* _build_image_url: base, quote(index_name) and quote(source_id) joined; the
\* URL is kept as the pair it is built from
BuildImageUrl(index_name, source_id) ==
    [index |-> index_name, id |-> source_id]

\* index_name.startswith('.ds-'), on the index names that occur
StartsWithDs(index_name) == index_name \in {".ds-ev", ".ds-.ds-ev"}

\* _build_alt_image_url
BuildAltImageUrl(index_name, source_id) ==
    IF StartsWithDs(index_name)
    THEN BuildImageUrl(index_name, source_id)
    ELSE BuildImageUrl(".ds-" \o index_name, source_id)

\* what upload_image_bytes (through process_image_with_bbox) returns: {} when
\* the upload failed, else the dict with both URLs
NoMeta == [media_url |-> Missing, media_url_with_token |-> Missing]

UploadedMeta ==
    [media_url |-> "media_url", media_url_with_token |-> "media_url_with_token"]

UploadMetas == {NoMeta, UploadedMeta}

\* upload_meta.get("media_url_with_token") or upload_meta.get("media_url")
MediaUrl(upload_meta) ==
    IF ~Falsy(upload_meta.media_url_with_token)
    THEN upload_meta.media_url_with_token
    ELSE upload_meta.media_url

\* (mutant) the URL is attached whether or not the upload succeeded
AttachImageWithoutUpload(doc, r1, r2, upload_meta) ==
    IF Falsy(doc._index) \/ Falsy(doc._id)
    THEN [reaches_append |-> FALSE, skipped |-> TRUE, doc |-> doc,
          requests |-> <<>>]
    ELSE LET image_url == BuildImageUrl(doc._index, doc._id)
             alt_url   == BuildAltImageUrl(doc._index, doc._id)
             requests  == IF r1 = "404" THEN <<image_url, alt_url>>
                                        ELSE <<image_url>>
             final     == IF r1 = "404" THEN r2 ELSE r1
         IN  IF final = "raise"
             THEN [reaches_append |-> FALSE, skipped |-> FALSE, doc |-> doc,
                   requests |-> requests]
             ELSE IF final = "200"
             THEN [reaches_append |-> TRUE, skipped |-> FALSE,
                   doc |-> [doc EXCEPT !._source.image_url = "media_url"],
                   requests |-> requests]
             ELSE [reaches_append |-> TRUE, skipped |-> FALSE, doc |-> doc,
                   requests |-> requests]

\* (mutant) no `continue` for a record without collection name or id
AttachImageWithoutIdentityTest(doc, r1, r2, upload_meta) ==
    IF FALSE
    THEN [reaches_append |-> FALSE, skipped |-> TRUE, doc |-> doc,
          requests |-> <<>>]
    ELSE LET image_url == BuildImageUrl(doc._index, doc._id)
             alt_url   == BuildAltImageUrl(doc._index, doc._id)
             requests  == IF r1 = "404" THEN <<image_url, alt_url>>
                                        ELSE <<image_url>>
             final     == IF r1 = "404" THEN r2 ELSE r1
         IN  IF final = "raise"
             THEN [reaches_append |-> FALSE, skipped |-> FALSE, doc |-> doc,
                   requests |-> requests]
             ELSE IF final = "200" /\ upload_meta /= NoMeta
                       /\ ~Falsy(MediaUrl(upload_meta))
             THEN [reaches_append |-> TRUE, skipped |-> FALSE,
                   doc |-> [doc EXCEPT !._source.image_url = MediaUrl(upload_meta)],
                   requests |-> requests]
             ELSE [reaches_append |-> TRUE, skipped |-> FALSE, doc |-> doc,
                   requests |-> requests]

\* The body of the per-record try block up to staged.append.
\* r1, r2: outcome of the GET on the primary and on the alternate URL (a
\* status, "200-empty" for a 200 without content, or "raise").
\* Result: whether the record is skipped for want of an identity, whether
\* control reaches staged.append, the record as it then is, and the URLs
\* requested, in order.
AttachImage(doc, r1, r2, upload_meta) ==
    IF Falsy(doc._index) \/ Falsy(doc._id)
    THEN [reaches_append |-> FALSE, skipped |-> TRUE, doc |-> doc,
          requests |-> <<>>]
    ELSE LET image_url == BuildImageUrl(doc._index, doc._id)
             alt_url   == BuildAltImageUrl(doc._index, doc._id)
             requests  == IF r1 = "404" THEN <<image_url, alt_url>>
                                        ELSE <<image_url>>
             final     == IF r1 = "404" THEN r2 ELSE r1
         IN  IF final = "raise"
             THEN [reaches_append |-> FALSE, skipped |-> FALSE, doc |-> doc,
                   requests |-> requests]
             ELSE IF final = "200" /\ upload_meta /= NoMeta
                       /\ ~Falsy(MediaUrl(upload_meta))
             THEN [reaches_append |-> TRUE, skipped |-> FALSE,
                   doc |-> [doc EXCEPT !._source.image_url = MediaUrl(upload_meta)],
                   requests |-> requests]
             ELSE [reaches_append |-> TRUE, skipped |-> FALSE, doc |-> doc,
                   requests |-> requests]

\* the same as seen by the loop; up: the upload returned the URLs (TRUE) or
\* {} (FALSE); gets: the number of GET requests issued
EnrichOne(doc, r1, r2, up) ==
    LET a == AttachImage(doc, r1, r2, IF up THEN UploadedMeta ELSE NoMeta)
    IN  [reaches_append |-> a.reaches_append, skipped |-> a.skipped,
         doc |-> a.doc, gets |-> Len(a.requests)]

\* the image step of one record: the record read, the outcomes of the
\* requests and of the upload, and the result
FetchJob(state, doc, r1, r2, upload_meta, result) ==
    [state |-> state, doc |-> doc, r1 |-> r1, r2 |-> r2,
     upload_meta |-> upload_meta, result |-> result]

NoFetch ==
    FetchJob("none", Hit(0), "unused", "unused", NoMeta,
             AttachImage(Hit(0), "unused", "unused", NoMeta))

(***************************************************************************)
(* SimpleFirebaseClient.store_documents_batch.                             *)
(***************************************************************************)
\* (mutant) a key built from the id alone
DocIdWithoutCollection(doc) == Get(doc._id, "unknown")

DocId(doc) == Get(doc._index, "unknown") \o "_" \o Get(doc._id, "unknown")

\* _prepare_document_for_firestore plus the source metadata
FirestoreData(doc) ==
    [image_url    |-> doc._source.image_url,
     status       |-> "Pending",
     source_index |-> Get(doc._index, "unknown"),
     source_id    |-> Get(doc._id, "unknown")]

EmptyDest == [k \in {} |-> FirestoreData(Hit(1))]

\* (mutant) collection.add(data): every write gets a generated key
CommitChunkAdd(d, chunk) ==
    LET n == Cardinality(DOMAIN d)
        key(i) == DocId(chunk[i]) \o "#" \o ToString(n + i)
    IN  [k \in DOMAIN d \cup {key(i) : i \in 1..Len(chunk)} |->
            IF k \in DOMAIN d THEN d[k]
            ELSE FirestoreData(chunk[CHOOSE i \in 1..Len(chunk) : key(i) = k])]

\* batch.set(doc_ref, data) for every record of the chunk, then batch.commit():
\* a later record of the chunk with the same id overrides an earlier one
CommitChunk(d, chunk) ==
    LET ids == {DocId(chunk[i]) : i \in 1..Len(chunk)}
        lastOf(k) == CHOOSE i \in 1..Len(chunk) :
                        /\ DocId(chunk[i]) = k
                        /\ \A j \in (i + 1)..Len(chunk) : DocId(chunk[j]) /= k
    IN  [k \in DOMAIN d \cup ids |->
            IF k \in ids THEN FirestoreData(chunk[lastOf(k)]) ELSE d[k]]

RECURSIVE StoreFromPerRecord(_, _, _, _, _, _)
\* (mutant) one write and one commit per record
StoreFromPerRecord(d, docs, bs, fails, i, successful_stores) ==
    IF i > Len(docs)
    THEN [dest |-> d, count |-> successful_stores]
    ELSE IF i \in fails
         THEN StoreFromPerRecord(d, docs, bs, fails, i + 1, successful_stores)
         ELSE StoreFromPerRecord(CommitChunk(d, <<docs[i]>>), docs, bs, fails,
                                 i + 1, successful_stores + 1)

RECURSIVE StoreFrom(_, _, _, _, _, _)
\* the loop `for i in range(0, total_documents, batch_size)`, i 1-based here;
\* fails: the numbers of the sub-batches whose commit raises
StoreFrom(d, docs, bs, fails, i, successful_stores) ==
    IF i > Len(docs)
    THEN [dest |-> d, count |-> successful_stores]
    ELSE LET chunk     == SubSeq(docs, i, Min(i + bs - 1, Len(docs)))
             batch_num == ((i - 1) \div bs) + 1
         IN  IF batch_num \in fails
             THEN StoreFrom(d, docs, bs, fails, i + bs, successful_stores)
             ELSE StoreFrom(CommitChunk(d, chunk), docs, bs, fails, i + bs,
                            successful_stores + Len(chunk))

\* (mutant) writes that are not batched: the first record is written before
\* a commit raises
StoreDocumentsBatchUnbatched(d, docs, bs, fails) ==
    IF docs = <<>> \/ bs <= 0
    THEN [dest |-> d, count |-> 0]
    ELSE LET r == StoreFrom(d, docs, bs, fails, 1, 0)
         IN  IF fails = {} THEN r
             ELSE [dest |-> CommitChunk(r.dest, <<docs[1]>>), count |-> r.count]

\* range(0, n, 0) raises ValueError, caught by the outer handler (returns 0);
\* range(0, n, negative) is empty
StoreDocumentsBatch(d, docs, bs, fails) ==
    IF docs = <<>> \/ bs <= 0
    THEN [dest |-> d, count |-> 0]
    ELSE StoreFrom(d, docs, bs, fails, 1, 0)

NumSubBatches(docs, bs) ==
    IF bs <= 0 THEN 0 ELSE (Len(docs) + bs - 1) \div bs

\* how often one call sleeps: `if i + batch_size < total_documents:
\* time.sleep(0.2)` after a sub-batch that was committed (a failed one
\* leaves the iteration with `continue`)
PacingDelays(docs, bs, fails) ==
    Cardinality({b \in 1..NumSubBatches(docs, bs) :
                    b \notin fails /\ b * bs < Len(docs)})

(***************************************************************************)
(* EventStatisticsService.                                                 *)
(***************************************************************************)
\* keys of the dict `stats` that hold a counter, and those that do not
CounterKeys == {"total", "pending", "accepted", "rejected", "done"}
OtherKeys   == {"last_updated", "date_filter"}

CountStatus(d, key) == Cardinality({k \in DOMAIN d : Lower(d[k].status) = key})

\* `if status in stats: stats[status] += 1 else: stats['pending'] += 1`;
\* adding 1 to a non-counter entry raises and the scan returns {}
CalculateEventStatistics(d) ==
    IF \E k \in DOMAIN d : Lower(d[k].status) \in OtherKeys
    THEN [total |-> -1]
    ELSE [total    |-> Cardinality(DOMAIN d) + CountStatus(d, "total"),
          pending  |-> CountStatus(d, "pending")
                         + Cardinality({k \in DOMAIN d :
                              Lower(d[k].status) \notin CounterKeys \cup OtherKeys}),
          accepted |-> CountStatus(d, "accepted"),
          rejected |-> CountStatus(d, "rejected"),
          done     |-> CountStatus(d, "done")]

\* update_event_status: the statuses it accepts, and the inputs tried here
valid_statuses == {"pending", "accepted", "rejected", "done"}
StatusInputs   == {"Accepted", "archived"}

(***************************************************************************)
(* SimpleFirebaseClient: image annotation.                                 *)
(***************************************************************************)
\* An image_position string is kept as its parts: the text before the
\* parenthesis, whether a parenthesised part follows, and the fields between
\* the commas, each a number <<"num", n>> or other text <<"text", t>>.
Position(name, parens, fields) ==
    [name |-> name, parens |-> parens, fields |-> fields]

Num(n) == <<"num", n>>

\* None or ""
NoPosition == Position("", FALSE, <<>>)

\* the box of four numbers "BBOX (x1,y1,x2,y2)"
BoxString(x1, y1, x2, y2) ==
    Position("BBOX", TRUE, <<Num(x1), Num(y1), Num(x2), Num(y2)>>)

\* re.search(r'BBOX\s*\(([^)]+)\)', s): case-sensitive, anywhere in s
MatchesPattern(s) ==
    s.name \in {"BBOX", "see BBOX"} /\ s.parens /\ s.fields /= <<>>

\* "BBOX" in image_position.upper()
UpperContainsBBOX(s) == s.name \in {"BBOX", "see BBOX", "bbox"}

\* None
NoBox == <<>>

\* mutation: a string with another number of coordinates is padded or cut
ParseBboxCoordinatesAnyArity(s) ==
    IF ~MatchesPattern(s) THEN NoBox
    ELSE IF \E i \in 1..Len(s.fields) : s.fields[i][1] /= "num" THEN NoBox
    ELSE [i \in 1..4 |-> IF i <= Len(s.fields) THEN s.fields[i][2] ELSE 0]

\* parse_bbox_coordinates: (x1, y1, x2, y2) or None
ParseBboxCoordinates(s) ==
    IF ~MatchesPattern(s) THEN NoBox
    ELSE IF \E i \in 1..Len(s.fields) : s.fields[i][1] /= "num" THEN NoBox
    ELSE IF Len(s.fields) /= 4 THEN NoBox
    ELSE [i \in 1..4 |-> s.fields[i][2]]

\* `x2 = x1 + 10  # Minimum width`
MinExtent == 10

\* mutation: no minimum width or height
DrawnRectangleNoMinimum(bbox_coords, img_width, img_height) ==
    <<Max(0, Min(bbox_coords[1], img_width)),
      Max(0, Min(bbox_coords[2], img_height)),
      Max(0, Min(bbox_coords[3], img_width)),
      Max(0, Min(bbox_coords[4], img_height))>>

\* draw_rectangle_on_image, lines 112-124: the rectangle handed to
\* draw.rectangle for a box and an image of the given size
DrawnRectangle(bbox_coords, img_width, img_height) ==
    LET x1 == Max(0, Min(bbox_coords[1], img_width))
        y1 == Max(0, Min(bbox_coords[2], img_height))
        x2 == Max(0, Min(bbox_coords[3], img_width))
        y2 == Max(0, Min(bbox_coords[4], img_height))
    IN  <<x1, y1,
          IF x2 <= x1 THEN x1 + MinExtent ELSE x2,
          IF y2 <= y1 THEN y1 + MinExtent ELSE y2>>

\* image bytes: the original, or the original with a rectangle drawn on it
Original == [rectangle |-> NoBox]

\* draw_rectangle_on_image: the re-encoded image, or the original bytes
\* when the image cannot be processed
DrawRectangleOnImage(bbox_coords, img_width, img_height, draw_ok) ==
    IF draw_ok
    THEN [rectangle |-> DrawnRectangle(bbox_coords, img_width, img_height)]
    ELSE Original

\* process_image_with_bbox: the bytes handed to upload_image_bytes
ProcessImageWithBbox(image_position, img_width, img_height, draw_ok) ==
    IF image_position /= NoPosition /\ UpperContainsBBOX(image_position)
    THEN LET bbox_coords == ParseBboxCoordinates(image_position)
         IN  IF bbox_coords /= NoBox
             THEN DrawRectangleOnImage(bbox_coords, img_width, img_height,
                                       draw_ok)
             ELSE Original
    ELSE Original

\* one call of process_image_with_bbox: its arguments (the image by its size),
\* what parse_bbox_coordinates returns for image_position, and the bytes
\* handed to upload_image_bytes
ImageJob(state, image_position, img_width, img_height, parsed, uploaded) ==
    [state |-> state, image_position |-> image_position,
     img_width |-> img_width, img_height |-> img_height,
     parsed |-> parsed, uploaded |-> uploaded]

\* no call
NoJob == ImageJob("none", NoPosition, 0, 0, NoBox, Original)

(***************************************************************************)
(* NotificationService.                                                    *)
(***************************************************************************)
\* the documents of the responders collection, in the order a query streams
\* them, and the notification_token values stored in them ("" is no token)
RespOrder    == <<"r1", "r2">>
StoredTokens == {"tA", " tA", "tB", ""}

\* notification_token: None
NoneToken == "None (not a str)"

\* str.strip() on the token strings that occur
Strip(t) == IF t = " tA" THEN "tA" ELSE t

RECURSIVE TokensFrom(_, _, _, _)
\* the loop `for snap in snapshots` followed by dict.fromkeys: the stripped
\* non-empty tokens of the selected responders, each once, first come first
TokensFrom(resp, online_only, i, tokens) ==
    IF i > Len(RespOrder) THEN tokens
    ELSE LET data  == resp[RespOrder[i]]
             token == Strip(data.notification_token)
         IN  IF /\ online_only => data.status = "online"
                /\ data.notification_token /= NoneToken
                /\ token /= ""
                /\ \A j \in 1..Len(tokens) : tokens[j] /= token
             THEN TokensFrom(resp, online_only, i + 1, Append(tokens, token))
             ELSE TokensFrom(resp, online_only, i + 1, tokens)

\* get_responder_tokens; a failing query gives []
GetResponderTokens(resp, online_only, query_ok) ==
    IF query_ok THEN TokensFrom(resp, online_only, 1, <<>>) ELSE <<>>

\* what messaging.send does for one token: a message id, or an error with
\* one of these messages
SendResults == {"sent", "Requested entity was not found.",
                "Invalid registration", "Service unavailable"}

\* "not found" in str(e).lower() or "invalid" in str(e).lower()
IsInvalidTokenError(msg) ==
    msg \in {"Requested entity was not found.", "Invalid registration"}

\* (mutant) the failing token is cleared at once
MarkTokenAndClear(resp, invalid_token) ==
    [r \in DOMAIN resp |->
        IF resp[r].notification_token = invalid_token
        THEN [resp[r] EXCEPT !.status = "offline", !.token_invalid = FALSE,
                             !.notification_token = NoneToken]
        ELSE resp[r]]

\* where notification_token == invalid_token: update status, token_invalid
MarkTokenForCleanup(resp, invalid_token) ==
    [r \in DOMAIN resp |->
        IF resp[r].notification_token = invalid_token
        THEN [resp[r] EXCEPT !.status = "offline", !.token_invalid = TRUE]
        ELSE resp[r]]

\* cleanup_invalid_tokens: where token_invalid == True: update status,
\* notification_token, token_invalid; the collection it leaves
CleanupInvalidTokensIn(resp) ==
    [r \in DOMAIN resp |->
        IF resp[r].token_invalid
        THEN [resp[r] EXCEPT !.status = "offline",
                             !.notification_token = NoneToken,
                             !.token_invalid = FALSE]
        ELSE resp[r]]

\* cleaned_count
CleanedCount(resp) == Cardinality({r \in DOMAIN resp : resp[r].token_invalid})

RECURSIVE SendToTokensStopAtFailure(_, _, _, _, _, _)
\* (mutant) the first send that fails ends the loop
SendToTokensStopAtFailure(resp, tokens, result, i, success_count, failure_count) ==
    IF i > Len(tokens)
    THEN [success_count |-> success_count, failure_count |-> failure_count,
          error |-> FALSE, total_tokens |-> Len(tokens), responders |-> resp,
          attempts |-> SubSeq(tokens, 1, i - 1)]
    ELSE IF result[tokens[i]] = "sent"
         THEN SendToTokensStopAtFailure(resp, tokens, result, i + 1,
                                        success_count + 1, failure_count)
         ELSE [success_count |-> success_count,
               failure_count |-> failure_count + 1,
               error |-> FALSE, total_tokens |-> Len(tokens),
               responders |-> resp, attempts |-> SubSeq(tokens, 1, i)]

RECURSIVE SendToTokensFrom(_, _, _, _, _, _)
\* the loop `for token in valid_tokens` of send_notification_to_tokens
SendToTokensFrom(resp, tokens, result, i, success_count, failure_count) ==
    IF i > Len(tokens)
    THEN [success_count |-> success_count, failure_count |-> failure_count,
          error |-> FALSE, total_tokens |-> Len(tokens), responders |-> resp,
          attempts |-> SubSeq(tokens, 1, i - 1)]
    ELSE LET r == result[tokens[i]]
         IN  IF r = "sent"
             THEN SendToTokensFrom(resp, tokens, result, i + 1,
                                   success_count + 1, failure_count)
             ELSE SendToTokensFrom(
                      IF IsInvalidTokenError(r)
                      THEN MarkTokenForCleanup(resp, tokens[i]) ELSE resp,
                      tokens, result, i + 1, success_count, failure_count + 1)

\* (mutant) no token reported as an error
SendToRespondersNoTokenIsError(resp, online_only, query_ok, result, raised) ==
    LET all_tokens == GetResponderTokens(resp, online_only, query_ok)
    IN  IF all_tokens = <<>> \/ raised
        THEN [success_count |-> 0, failure_count |-> 0, error |-> TRUE,
              total_tokens |-> Len(all_tokens), responders |-> resp]
        ELSE SendToTokensFrom(resp, all_tokens, result, 1, 0, 0)

\* batch_size: int = 500
DefaultFanoutBatch == 500

RECURSIVE SendChunksFrom(_, _, _, _, _, _)
\* the loop `for i in range(0, len(all_tokens), max(1, batch_size))`, i
\* 1-based here and the parameter called cap; sum: the totals so far
SendChunksFrom(resp, all_tokens, cap, result, i, sum) ==
    IF i > Len(all_tokens)
    THEN sum
    ELSE LET step  == Max(1, cap)
             chunk == SubSeq(all_tokens, i, Min(i + step - 1, Len(all_tokens)))
             res   == SendToTokensFrom(resp, chunk, result, 1, 0, 0)
         IN  SendChunksFrom(res.responders, all_tokens, cap, result, i + step,
                [success_count |-> sum.success_count + res.success_count,
                 failure_count |-> sum.failure_count + res.failure_count,
                 error         |-> FALSE,
                 total_tokens  |-> Len(all_tokens),
                 responders    |-> res.responders,
                 attempts      |-> sum.attempts \o res.attempts,
                 chunks        |-> Append(sum.chunks, chunk)])

\* send_notification_to_responders(batch_size = cap): the summary it
\* returns, the responders collection it leaves, and (history) the tokens a
\* send was attempted to and the chunks; raised = an exception inside it
SendNotificationToRespondersIn(resp, cap, online_only, query_ok, result, raised) ==
    LET all_tokens == GetResponderTokens(resp, online_only, query_ok)
        none == [success_count |-> 0, failure_count |-> 0, error |-> FALSE,
                 total_tokens |-> 0, responders |-> resp,
                 attempts |-> <<>>, chunks |-> <<>>]
    IN  IF all_tokens = <<>>
        THEN none
        ELSE IF raised
        THEN [none EXCEPT !.error = TRUE, !.total_tokens = Len(all_tokens)]
        ELSE SendChunksFrom(resp, all_tokens, cap, result, 1, none)

\* send_notification_to_responders as the pipeline calls it
SendNotificationToResponders(resp, online_only, query_ok, result, raised) ==
    SendNotificationToRespondersIn(resp, DefaultFanoutBatch, online_only,
                                   query_ok, result, raised)

\* a responder document
Responder(status, token) ==
    [status |-> status, notification_token |-> token, token_invalid |-> FALSE]

\* both responders registered, none of them online
NoneOnline == [r \in {"r1", "r2"} |-> Responder("offline", "tA")]

\* the responders collections at the start of a run: nobody online, or both
RunResponders ==
    {NoneOnline,
     [r \in {"r1", "r2"} |-> Responder("online", IF r = "r1" THEN "tA" ELSE "tB")]}

(***************************************************************************)
(* SimpleDataPipeline: run statistics.                                     *)
(***************************************************************************)
InitStats ==
    [total_processed |-> 0, total_successful |-> 0, total_failed |-> 0,
     last_error |-> "None"]

\* (mutant) every run that read records counts as successful
RecordRunAlwaysSuccessful(s, stored_count) ==
    [s EXCEPT !.total_processed = @ + 1, !.total_successful = @ + 1,
              !.last_error = "None"]

\* process_recent_data / process_all_data, "Update statistics"
RecordRun(s, stored_count) ==
    IF stored_count > 0
    THEN [s EXCEPT !.total_processed = @ + 1, !.total_successful = @ + 1,
                   !.last_error = "None"]
    ELSE [s EXCEPT !.total_processed = @ + 1, !.total_failed = @ + 1,
                   !.last_error = "Failed to store documents"]

\* the handler `except Exception as e` of process_recent_data / process_all_data
RecordError(s) ==
    [s EXCEPT !.total_failed = @ + 1, !.last_error = "source error"]

\* batch_size = max(1, config.pipeline.batch_size)
EffectiveBatchSize(cfg) == Max(1, cfg)

\* (mutant) the next cycle follows the run without a sleep
AfterRunWithoutSleep(m) == IF m = "continuous" THEN "loop" ELSE "exited"

\* where the process goes when a run has returned
AfterRun(m) == IF m = "continuous" THEN "sleeping" ELSE "exited"

\* the run returns stored_count through the statistics update
Finish(p, stored_count) ==
    /\ stats' = [stats EXCEPT ![p] = RecordRun(@, stored_count)]
    /\ returned' = [returned EXCEPT ![p] = stored_count]
    /\ pc' = [pc EXCEPT ![p] = AfterRun(mode[p])]

Goto(p, where) ==
    /\ pc' = [pc EXCEPT ![p] = where]
    /\ UNCHANGED <<stats, returned>>

\* after a batch has been dealt with: next record, or the end of the run
\* (when the loop is over here, staged has just been emptied or committed)
AfterBatch(p, total) ==
    IF pos[p] <= Len(documents[p]) THEN Goto(p, "enriching") ELSE Finish(p, total)

Logged(p, e) == log' = [log EXCEPT ![p] = Append(@, e)]

(***************************************************************************)
(* Initial states.                                                         *)
(***************************************************************************)
Modes == {"continuous", "single", "full-sync"}

\* the processes before anything has run
\* SimpleDataPipeline.__init__ and the locals of a run not yet made
InitInstances ==
    /\ is_running = [p \in Inst |-> FALSE]
    /\ stop_requested = [p \in Inst |-> "no"]
    /\ cycles = [p \in Inst |-> 0]
    /\ documents = [p \in Inst |-> <<>>]
    /\ pos = [p \in Inst |-> 1]
    /\ staged = [p \in Inst |-> <<>>]
    /\ total_committed = [p \in Inst |-> 0]
    /\ batch_number = [p \in Inst |-> 0]
    /\ committed = [p \in Inst |-> 0]
    /\ returned = [p \in Inst |-> -1]
    /\ stats = [p \in Inst |-> InitStats]
    /\ log = [p \in Inst |-> <<>>]

InitProcesses ==
    /\ batch_size \in 1..MaxBatch
    /\ InitInstances

InitCommon ==
    /\ InitProcesses
    /\ image_job = NoJob
    /\ fetch_job = NoFetch
    /\ scroll = NoScroll
    /\ limit = NoLimit
    /\ dest = EmptyDest
    /\ snapshot = NoSnapshot

\* one pipeline process, in any mode
Init ==
    /\ InitCommon
    /\ responders = NoneOnline
    /\ mode \in {m \in [Inst -> Modes] : m[2] = "single"}
    /\ pc = [p \in Inst |-> IF p = 1 THEN "start" ELSE "off"]

(***************************************************************************)
(* main(): dispatch on --mode; run_continuous_pipeline sets is_running.    *)
(***************************************************************************)
\* `if not await data_pipeline.initialize(): return False`: no run is made
InitializeFails(p) ==
    /\ pc[p] = "start"
    /\ pc' = [pc EXCEPT ![p] = "init_failed"]
    /\ UNCHANGED <<responders,
                   batch_size, image_job, fetch_job, scroll, limit, mode, is_running, stop_requested, cycles,
                   documents, pos, staged, total_committed, batch_number,
                   committed, returned, stats, log, dest, snapshot>>

\* the value run_continuous_mode / run_single_execution / run_full_sync
\* returns: False when initialize() failed, True after the run whatever it
\* returned (for a process that has ended)
Success(p) == pc[p] /= "init_failed"

\* sys.exit(0) if success, sys.exit(1) otherwise
ExitCode(p) == IF Success(p) THEN 0 ELSE 1

Start(p) ==
    /\ pc[p] = "start"
    /\ IF mode[p] = "continuous"
       THEN /\ is_running' = [is_running EXCEPT ![p] = TRUE]
            /\ pc' = [pc EXCEPT ![p] = "loop"]
            /\ UNCHANGED cycles
       ELSE /\ pc' = [pc EXCEPT ![p] = "reading"]
            /\ cycles' = [cycles EXCEPT ![p] = @ + 1]
            /\ UNCHANGED is_running
    /\ UNCHANGED <<responders,
                   batch_size, image_job, fetch_job, scroll, limit, mode, stop_requested, documents, pos, staged,
                   total_committed, batch_number, committed, returned, stats,
                   log, dest, snapshot>>

\* signal_handler -> stop_pipeline
StopPipeline(p) ==
    /\ mode[p] = "continuous"
    /\ pc[p] \notin {"off", "stopped", "init_failed"}
    /\ stop_requested[p] = "no"
    /\ stop_requested' = [stop_requested EXCEPT ![p] = pc[p]]
    /\ is_running' = [is_running EXCEPT ![p] = FALSE]
    /\ UNCHANGED <<responders,
                   batch_size, image_job, fetch_job, scroll, limit, mode, pc, cycles, documents, pos, staged,
                   total_committed, batch_number, committed, returned, stats,
                   log, dest, snapshot>>

\* (mutant) `while True:`, a loop that does not look at the flag
LoopCheckIgnoringStop(p) ==
    /\ pc[p] = "loop"
    /\ cycles[p] < MaxCycles
    /\ pc' = [pc EXCEPT ![p] = "reading"]
    /\ cycles' = [cycles EXCEPT ![p] = @ + 1]
    /\ UNCHANGED <<responders,
                   batch_size, image_job, fetch_job, scroll, limit, mode, is_running, stop_requested, documents, pos,
                   staged, total_committed, batch_number, committed, returned,
                   stats, log, dest, snapshot>>

\* `while self.is_running:` and, when it is false, the finally clause
LoopCheck(p) ==
    /\ pc[p] = "loop"
    /\ IF is_running[p]
       THEN /\ cycles[p] < MaxCycles
            /\ pc' = [pc EXCEPT ![p] = "reading"]
            /\ cycles' = [cycles EXCEPT ![p] = @ + 1]
       ELSE /\ pc' = [pc EXCEPT ![p] = "stopped"]
            /\ UNCHANGED cycles
    /\ UNCHANGED <<responders,
                   batch_size, image_job, fetch_job, scroll, limit, mode, is_running, stop_requested, documents, pos,
                   staged, total_committed, batch_number, committed, returned,
                   stats, log, dest, snapshot>>

\* await asyncio.sleep(polling_interval_seconds)
Sleep(p) ==
    /\ pc[p] = "sleeping"
    /\ pc' = [pc EXCEPT ![p] = "loop"]
    /\ UNCHANGED <<responders,
                   batch_size, image_job, fetch_job, scroll, limit, mode, is_running, stop_requested, cycles,
                   documents, pos, staged, total_committed, batch_number,
                   committed, returned, stats, log, dest, snapshot>>

(***************************************************************************)
(* process_recent_data / process_all_data: the source query.               *)
(***************************************************************************)
SourceResults(m, size) ==
    IF m = "full-sync" THEN GetAllDocuments ELSE GetRecentDocuments(size)

ReadDocuments(p) ==
    /\ pc[p] = "reading"
    /\ \E fetched \in SourceResults(mode[p], batch_size) :
       LET docs == Truncate(fetched, limit)
       IN /\ documents' = [documents EXCEPT ![p] = docs]
          /\ log' = [log EXCEPT ![p] = <<[type |-> "read", n |-> Len(docs),
                                          fetched |-> fetched]>>]
          /\ IF docs = <<>>
             THEN /\ returned' = [returned EXCEPT ![p] = 0]
                  /\ pc' = [pc EXCEPT ![p] = AfterRun(mode[p])]
                  /\ UNCHANGED stats
             ELSE Goto(p, "token")
    /\ pos' = [pos EXCEPT ![p] = 1]
    /\ staged' = [staged EXCEPT ![p] = <<>>]
    /\ total_committed' = [total_committed EXCEPT ![p] = 0]
    /\ batch_number' = [batch_number EXCEPT ![p] = 0]
    /\ committed' = [committed EXCEPT ![p] = 0]
    /\ UNCHANGED <<responders,
                   batch_size, image_job, fetch_job, scroll, limit, mode, is_running, stop_requested, cycles, dest,
                   snapshot>>

\* (mutant) a query error swallowed as an empty result
ReadFailsSwallowed(p) ==
    /\ pc[p] = "reading"
    /\ documents' = [documents EXCEPT ![p] = <<>>]
    /\ log' = [log EXCEPT ![p] = <<[type |-> "read_error"]>>]
    /\ returned' = [returned EXCEPT ![p] = 0]
    /\ pc' = [pc EXCEPT ![p] = AfterRun(mode[p])]
    /\ pos' = [pos EXCEPT ![p] = 1]
    /\ staged' = [staged EXCEPT ![p] = <<>>]
    /\ total_committed' = [total_committed EXCEPT ![p] = 0]
    /\ batch_number' = [batch_number EXCEPT ![p] = 0]
    /\ committed' = [committed EXCEPT ![p] = 0]
    /\ UNCHANGED <<responders,
                   batch_size, image_job, fetch_job, scroll, limit, mode, is_running, stop_requested, cycles, dest,
                   snapshot, stats>>

\* the query raises ConnectionError / RequestError
ReadFails(p) ==
    /\ pc[p] = "reading"
    /\ documents' = [documents EXCEPT ![p] = <<>>]
    /\ log' = [log EXCEPT ![p] = <<[type |-> "read_error"]>>]
    /\ stats' = [stats EXCEPT ![p] = RecordError(@)]
    /\ returned' = [returned EXCEPT ![p] = 0]
    /\ pc' = [pc EXCEPT ![p] = AfterRun(mode[p])]
    /\ pos' = [pos EXCEPT ![p] = 1]
    /\ staged' = [staged EXCEPT ![p] = <<>>]
    /\ total_committed' = [total_committed EXCEPT ![p] = 0]
    /\ batch_number' = [batch_number EXCEPT ![p] = 0]
    /\ committed' = [committed EXCEPT ![p] = 0]
    /\ UNCHANGED <<responders,
                   batch_size, image_job, fetch_job, scroll, limit, mode, is_running, stop_requested, cycles, dest,
                   snapshot>>

(***************************************************************************)
(* _fetch_image_bearer_token, called once the list is known to be          *)
(* non-empty; raise_for_status is caught by `except Exception as img_err`. *)
(***************************************************************************)
\* (mutant) a failed token request is logged and the run goes on
FetchImageBearerTokenNotFatal(p) ==
    /\ pc[p] = "token"
    /\ \E ok \in BOOLEAN : Logged(p, [type |-> "token", ok |-> ok])
    /\ Goto(p, "enriching")
    /\ UNCHANGED <<responders,
                   batch_size, image_job, fetch_job, scroll, limit, mode, is_running, stop_requested, cycles,
                   documents, pos, staged, total_committed, batch_number,
                   committed, dest, snapshot>>

FetchImageBearerToken(p) ==
    /\ pc[p] = "token"
    /\ \E ok \in BOOLEAN :
          /\ Logged(p, [type |-> "token", ok |-> ok])
          /\ IF ok THEN Goto(p, "enriching") ELSE Finish(p, 0)
    /\ UNCHANGED <<responders,
                   batch_size, image_job, fetch_job, scroll, limit, mode, is_running, stop_requested, cycles,
                   documents, pos, staged, total_committed, batch_number,
                   committed, dest, snapshot>>

(***************************************************************************)
(* _process_and_attach_images_with_incremental_commit: one iteration of    *)
(* `for doc in documents` up to the test of the batch size.                *)
(***************************************************************************)
\* (mutant) the commit waits for one record more than the batch size
BatchFullAbove(st, cfg) == Len(st) > EffectiveBatchSize(cfg)

\* `if len(staged) >= batch_size`
BatchFull(st, cfg) == Len(st) >= EffectiveBatchSize(cfg)

\* (mutant) the test `committed >= 0`
CommitReportedAlways(n) == n >= 0

\* `if committed > 0`
CommitReported(n) == n > 0

\* (mutant) the record is put in front of the staged ones
EnrichDocPrepending(p) ==
    /\ pc[p] = "enriching"
    /\ pos[p] <= Len(documents[p])
    /\ \E r1 \in Responses :
       \E r2 \in (IF r1 = "404" THEN Responses ELSE {"unused"}) :
       \E up \in (IF "200" \in {r1, r2} THEN BOOLEAN ELSE {FALSE}) :
          LET e    == EnrichOne(documents[p][pos[p]], r1, r2, up)
              st   == IF e.reaches_append THEN <<e.doc>> \o staged[p]
                                          ELSE staged[p]
              last == pos[p] = Len(documents[p])
          IN  /\ staged' = [staged EXCEPT ![p] = st]
              /\ IF e.skipped
                 THEN UNCHANGED log
                 ELSE Logged(p, [type |-> "enrich", k |-> pos[p]])
              /\ IF (e.reaches_append /\ BatchFull(st, batch_size))
                      \/ (last /\ st /= <<>>)
                 THEN Goto(p, "committing")
                 ELSE IF last THEN Finish(p, total_committed[p])
                              ELSE Goto(p, "enriching")
    /\ pos' = [pos EXCEPT ![p] = @ + 1]
    /\ UNCHANGED <<responders,
                   batch_size, image_job, fetch_job, scroll, limit, mode, is_running, stop_requested, cycles,
                   documents, total_committed, batch_number, committed, dest,
                   snapshot>>

EnrichDoc(p) ==
    /\ pc[p] = "enriching"
    /\ pos[p] <= Len(documents[p])
    /\ \E r1 \in Responses :
       \E r2 \in (IF r1 = "404" THEN Responses ELSE {"unused"}) :
       \E up \in (IF "200" \in {r1, r2} THEN BOOLEAN ELSE {FALSE}) :
          LET e    == EnrichOne(documents[p][pos[p]], r1, r2, up)
              st   == IF e.reaches_append THEN Append(staged[p], e.doc)
                                          ELSE staged[p]
              last == pos[p] = Len(documents[p])
          IN  /\ staged' = [staged EXCEPT ![p] = st]
              /\ IF e.skipped
                 THEN UNCHANGED log
                 ELSE Logged(p, [type |-> "enrich", k |-> pos[p]])
              /\ IF (e.reaches_append /\ BatchFull(st, batch_size))
                      \/ (last /\ st /= <<>>)
                 THEN Goto(p, "committing")
                 ELSE IF last THEN Finish(p, total_committed[p])
                              ELSE Goto(p, "enriching")
    /\ pos' = [pos EXCEPT ![p] = @ + 1]
    /\ UNCHANGED <<responders,
                   batch_size, image_job, fetch_job, scroll, limit, mode, is_running, stop_requested, cycles,
                   documents, total_committed, batch_number, committed, dest,
                   snapshot>>

(***************************************************************************)
(* firebase_client.store_documents_batch(staged, ...) and the lines after  *)
(* it, for a full batch inside the loop and for the remainder after it.    *)
(***************************************************************************)
IdsOf(st) == [i \in 1..Len(st) |-> DocId(st[i])]

\* the (collection, id) pairs that have a document in the destination
PersistedIdentities(d) == {<<d[k].source_index, d[k].source_id>> : k \in DOMAIN d}

\* history: how many records of the batch have an identity not yet persisted
Fresh(st, d) ==
    Cardinality({<<st[i]._index, st[i]._id>> : i \in 1..Len(st)}
                    \ PersistedIdentities(d))

\* (mutant) the sequence number counts the failed batches too
StoreBatchNumberingEveryBatch(p) ==
    /\ pc[p] = "committing"
    /\ \E fails \in SUBSET (1..NumSubBatches(staged[p], batch_size)) :
          LET r == StoreDocumentsBatch(dest, staged[p], batch_size, fails)
              total == total_committed[p] + r.count
          IN  /\ dest' = r.dest
              /\ committed' = [committed EXCEPT ![p] = r.count]
              /\ total_committed' = [total_committed EXCEPT ![p] = total]
              /\ Logged(p, [type |-> "commit", ids |-> IdsOf(staged[p]),
                            committed |-> r.count,
                            fresh |-> Fresh(staged[p], dest),
                            delays |-> PacingDelays(staged[p], batch_size, fails),
                            created |-> Cardinality(DOMAIN r.dest \ DOMAIN dest)])
              /\ IF CommitReported(r.count)
                 THEN /\ batch_number' = [batch_number EXCEPT ![p] = @ + 1]
                      /\ Goto(p, "notifying")
                      /\ UNCHANGED staged
                 ELSE /\ staged' = [staged EXCEPT ![p] = <<>>]
                      /\ AfterBatch(p, total)
                      /\ batch_number' = [batch_number EXCEPT ![p] = @ + 1]
    /\ UNCHANGED <<responders,
                   batch_size, image_job, fetch_job, scroll, limit, mode, is_running, stop_requested, cycles,
                   documents, pos, snapshot>>

\* (mutant) a batch whose commit failed stays staged
StoreBatchRetrying(p) ==
    /\ pc[p] = "committing"
    /\ \E fails \in SUBSET (1..NumSubBatches(staged[p], batch_size)) :
          LET r == StoreDocumentsBatch(dest, staged[p], batch_size, fails)
              total == total_committed[p] + r.count
          IN  /\ dest' = r.dest
              /\ committed' = [committed EXCEPT ![p] = r.count]
              /\ total_committed' = [total_committed EXCEPT ![p] = total]
              /\ Logged(p, [type |-> "commit", ids |-> IdsOf(staged[p]),
                            committed |-> r.count,
                            fresh |-> Fresh(staged[p], dest),
                            delays |-> PacingDelays(staged[p], batch_size, fails),
                            created |-> Cardinality(DOMAIN r.dest \ DOMAIN dest)])
              /\ IF CommitReported(r.count)
                 THEN /\ batch_number' = [batch_number EXCEPT ![p] = @ + 1]
                      /\ Goto(p, "notifying")
                      /\ UNCHANGED staged
                 ELSE /\ UNCHANGED staged
                      /\ AfterBatch(p, total)
                      /\ UNCHANGED batch_number
    /\ UNCHANGED <<responders,
                   batch_size, image_job, fetch_job, scroll, limit, mode, is_running, stop_requested, cycles,
                   documents, pos, snapshot>>

StoreBatch(p) ==
    /\ pc[p] = "committing"
    /\ \E fails \in SUBSET (1..NumSubBatches(staged[p], batch_size)) :
          LET r == StoreDocumentsBatch(dest, staged[p], batch_size, fails)
              total == total_committed[p] + r.count
          IN  /\ dest' = r.dest
              /\ committed' = [committed EXCEPT ![p] = r.count]
              /\ total_committed' = [total_committed EXCEPT ![p] = total]
              /\ Logged(p, [type |-> "commit", ids |-> IdsOf(staged[p]),
                            committed |-> r.count,
                            fresh |-> Fresh(staged[p], dest),
                            delays |-> PacingDelays(staged[p], batch_size, fails),
                            created |-> Cardinality(DOMAIN r.dest \ DOMAIN dest)])
              /\ IF CommitReported(r.count)
                 THEN /\ batch_number' = [batch_number EXCEPT ![p] = @ + 1]
                      /\ Goto(p, "notifying")
                      /\ UNCHANGED staged
                 ELSE /\ staged' = [staged EXCEPT ![p] = <<>>]
                      /\ AfterBatch(p, total)
                      /\ UNCHANGED batch_number
    /\ UNCHANGED <<responders,
                   batch_size, image_job, fetch_job, scroll, limit, mode, is_running, stop_requested, cycles,
                   documents, pos, snapshot>>

\* (mutant) a fanout that reached nobody ends the run
SendBatchNotificationFatal(p) ==
    /\ pc[p] = "notifying"
    /\ \E query_ok \in BOOLEAN :
       LET addressed == GetResponderTokens(responders, TRUE, query_ok)
           tokens    == {addressed[i] : i \in 1..Len(addressed)}
       IN  \E raised \in (IF tokens = {} THEN {FALSE} ELSE BOOLEAN) :
           \E result \in [tokens -> IF raised THEN {"sent"} ELSE SendResults] :
              LET res == SendNotificationToResponders(responders, TRUE,
                                                      query_ok, result, raised)
              IN  /\ responders' = res.responders
                  /\ Logged(p, [type |-> "notify", count |-> committed[p],
                                batch |-> batch_number[p],
                                total_tokens |-> res.total_tokens,
                                success_count |-> res.success_count,
                                failure_count |-> res.failure_count,
                                error |-> res.error])
                  /\ IF res.success_count > 0 THEN Goto(p, "refreshing")
                                               ELSE Finish(p, 0)
    /\ UNCHANGED <<batch_size, image_job, fetch_job, scroll, limit, mode, is_running, stop_requested, cycles,
                   documents, pos, staged, total_committed, batch_number,
                   committed, dest, snapshot>>

\* _send_batch_notification(committed, batch_number): never raises, and the
\* caller does not look at what it returns
SendBatchNotification(p) ==
    /\ pc[p] = "notifying"
    /\ \E query_ok \in BOOLEAN :
       LET addressed == GetResponderTokens(responders, TRUE, query_ok)
           tokens    == {addressed[i] : i \in 1..Len(addressed)}
       IN  \E raised \in (IF tokens = {} THEN {FALSE} ELSE BOOLEAN) :
           \E result \in [tokens -> IF raised THEN {"sent"} ELSE SendResults] :
              LET res == SendNotificationToResponders(responders, TRUE,
                                                      query_ok, result, raised)
              IN  /\ responders' = res.responders
                  /\ Logged(p, [type |-> "notify", count |-> committed[p],
                                batch |-> batch_number[p],
                                total_tokens |-> res.total_tokens,
                                success_count |-> res.success_count,
                                failure_count |-> res.failure_count,
                                error |-> res.error])
    /\ Goto(p, "refreshing")
    /\ UNCHANGED <<batch_size, image_job, fetch_job, scroll, limit, mode, is_running, stop_requested, cycles,
                   documents, pos, staged, total_committed, batch_number,
                   committed, dest, snapshot>>

\* _update_event_statistics -> refresh_statistics: never raises; the scan or
\* the write of the snapshot may fail (ok = FALSE), which leaves the snapshot
UpdateEventStatistics(p) ==
    /\ pc[p] = "refreshing"
    /\ \E ok \in BOOLEAN :
          LET s == CalculateEventStatistics(dest)
          IN  /\ snapshot' = IF ok /\ s.total >= 0 THEN s ELSE snapshot
              /\ Logged(p, [type |-> "refresh", ok |-> ok /\ s.total >= 0])
    /\ staged' = [staged EXCEPT ![p] = <<>>]
    /\ AfterBatch(p, total_committed[p])
    /\ UNCHANGED <<responders,
                   batch_size, image_job, fetch_job, scroll, limit, mode, is_running, stop_requested, cycles,
                   documents, pos, total_committed, batch_number, committed,
                   dest>>

(***************************************************************************)
(* An external actor: EventStatisticsService.update_event_status.          *)
(***************************************************************************)
UpdateEventStatus(event_id, new_status) ==
    /\ event_id \in DOMAIN dest
    /\ Lower(new_status) \in valid_statuses
    /\ dest[event_id].status /= Lower(new_status)
    /\ dest' = [dest EXCEPT ![event_id].status = Lower(new_status)]
    /\ UNCHANGED <<responders,
                   batch_size, image_job, fetch_job, scroll, limit, mode, pc, is_running, stop_requested, cycles,
                   documents, pos, staged, total_committed, batch_number,
                   committed, returned, stats, log, snapshot>>

(***************************************************************************)
(* Specifications.                                                         *)
(***************************************************************************)
\* the steps of one run
RunStep(p) ==
    \/ InitializeFails(p)
    \/ Start(p)
    \/ ReadDocuments(p)
    \/ ReadFails(p)
    \/ FetchImageBearerToken(p)
    \/ EnrichDoc(p)
    \/ StoreBatch(p)
    \/ SendBatchNotification(p)
    \/ UpdateEventStatistics(p)

\* the steps of the continuous loop around the runs
LoopStep(p) ==
    \/ StopPipeline(p)
    \/ LoopCheck(p)
    \/ Sleep(p)

External ==
    \E event_id \in DOMAIN dest, new_status \in StatusInputs :
        UpdateEventStatus(event_id, new_status)

\* One process in any mode, and the external actor.
Next == (\E p \in Inst : RunStep(p) \/ LoopStep(p)) \/ External

Spec == Init /\ [][Next]_vars

\* One process that performs one run (--mode single or full-sync) against an
\* empty destination.
InitRun ==
    /\ InitCommon
    /\ responders = NoneOnline
    /\ mode \in {m \in [Inst -> Modes] : m[1] /= "continuous" /\ m[2] = "single"}
    /\ pc = [p \in Inst |-> IF p = 1 THEN "start" ELSE "off"]

NextRun == \E p \in Inst : RunStep(p)

SpecRun == InitRun /\ [][NextRun]_vars

\* BATCH_SIZE is an int of the environment, taken as it is
ConfiguredBatchSizes == (-1)..MaxBatch

\* One run as in SpecRun, with a configured batch size that may be 0 or
\* negative.
InitConfigured ==
    /\ batch_size \in ConfiguredBatchSizes
    /\ InitInstances
    /\ image_job = NoJob
    /\ fetch_job = NoFetch
    /\ scroll = NoScroll
    /\ limit = NoLimit
    /\ dest = EmptyDest
    /\ snapshot = NoSnapshot
    /\ responders = NoneOnline
    /\ mode \in {m \in [Inst -> Modes] : m[1] /= "continuous" /\ m[2] = "single"}
    /\ pc = [p \in Inst |-> IF p = 1 THEN "start" ELSE "off"]

SpecConfigured == InitConfigured /\ [][NextRun]_vars

\* The same, called with any limit argument.
Limits == {NoLimit} \cup {Limit(v) : v \in {-1, 0, 1, 2, NDocs + 2}}

InitLimit ==
    /\ InitProcesses
    /\ dest = EmptyDest
    /\ snapshot = NoSnapshot
    /\ image_job = NoJob
    /\ fetch_job = NoFetch
    /\ scroll = NoScroll
    /\ limit \in Limits
    /\ responders = NoneOnline
    /\ mode \in {m \in [Inst -> Modes] : m[1] /= "continuous" /\ m[2] = "single"}
    /\ pc = [p \in Inst |-> IF p = 1 THEN "start" ELSE "off"]

SpecLimit == InitLimit /\ [][NextRun]_vars

\* The same, with responders that are online or not when the run starts.
InitFanout ==
    /\ InitCommon
    /\ responders \in RunResponders
    /\ mode \in {m \in [Inst -> Modes] : m[1] /= "continuous" /\ m[2] = "single"}
    /\ pc = [p \in Inst |-> IF p = 1 THEN "start" ELSE "off"]

SpecFanout == InitFanout /\ [][NextRun]_vars

\* Two processes that each perform one run against the same source and the
\* same destination, their steps interleaved: the first in either one-run
\* mode, the second over the recent window.
InitTwo ==
    /\ InitCommon
    /\ responders = NoneOnline
    /\ mode \in {m \in [Inst -> Modes \ {"continuous"}] : m[2] = "single"}
    /\ pc = [p \in Inst |-> "start"]

SpecTwo == InitTwo /\ [][NextRun]_vars

(***************************************************************************)
(* The statistics service over a collection of events whose status is      *)
(* written by external actors.                                             *)
(***************************************************************************)
\* status values an external actor may have stored
StatusValues == {"Pending", "Accepted", "rejected", "done", "archived",
                 "total", "last_updated"}

\* events persisted by earlier runs: the records of AllDocs with an identity
PersistedEvents ==
    {StoreDocumentsBatch(EmptyDest, Window(lo, hi), hi, {}).dest :
        lo \in 2..Len(AllDocs), hi \in 2..Len(AllDocs)}

\* an external actor writes the status field of an event
SetStatus(event_id, status) ==
    /\ event_id \in DOMAIN dest
    /\ dest[event_id].status /= status
    /\ dest' = [dest EXCEPT ![event_id].status = status]
    /\ UNCHANGED <<responders,
                   batch_size, image_job, fetch_job, scroll, limit, mode, pc, is_running, stop_requested, cycles,
                   documents, pos, staged, total_committed, batch_number,
                   committed, returned, stats, log, snapshot>>

\* (mutant) the counts of the scan are added to the stored ones
RefreshStatisticsAccumulating ==
    /\ \E ok \in BOOLEAN :
          LET s == CalculateEventStatistics(dest)
          IN  snapshot' =
                 IF ok /\ s.total >= 0
                 THEN IF snapshot = NoSnapshot THEN s
                      ELSE [total    |-> snapshot.total + s.total,
                            pending  |-> snapshot.pending + s.pending,
                            accepted |-> snapshot.accepted + s.accepted,
                            rejected |-> snapshot.rejected + s.rejected,
                            done     |-> snapshot.done + s.done]
                 ELSE snapshot
    /\ snapshot' /= snapshot
    /\ UNCHANGED <<responders,
                   batch_size, image_job, fetch_job, scroll, limit, mode, pc, is_running, stop_requested, cycles,
                   documents, pos, staged, total_committed, batch_number,
                   committed, returned, stats, log, dest>>

\* refresh_statistics: scan, then store the snapshot if the scan gave one
\* and the write succeeds
RefreshStatistics ==
    /\ \E ok \in BOOLEAN :
          LET s == CalculateEventStatistics(dest)
          IN  snapshot' = IF ok /\ s.total >= 0 THEN s ELSE snapshot
    /\ snapshot' /= snapshot
    /\ UNCHANGED <<responders,
                   batch_size, image_job, fetch_job, scroll, limit, mode, pc, is_running, stop_requested, cycles,
                   documents, pos, staged, total_committed, batch_number,
                   committed, returned, stats, log, dest>>

InitScan ==
    /\ InitProcesses
    /\ mode = [p \in Inst |-> "single"]
    /\ pc = [p \in Inst |-> "off"]
    /\ dest \in PersistedEvents
    /\ responders = NoneOnline
    /\ snapshot = NoSnapshot
    /\ image_job = NoJob
    /\ fetch_job = NoFetch
    /\ scroll = NoScroll
    /\ limit = NoLimit

NextScan ==
    \/ \E event_id \in DOMAIN dest, status \in StatusValues :
          SetStatus(event_id, status)
    \/ RefreshStatistics

SpecScan == InitScan /\ [][NextScan]_vars

(***************************************************************************)
(* The notification service called again and again, and the responders     *)
(* whose documents are written by external actors.                         *)
(***************************************************************************)
\* every responders collection of two documents, no token flagged
AnyResponders ==
    [{"r1", "r2"} -> {Responder(st, t) : st \in {"online", "offline"},
                                        t \in StoredTokens}]

\* the batch_size arguments of the calls
FanoutCaps == {0, 1, 2}

\* one call of send_notification_to_responders; log[1] keeps the last call
Fanout ==
    /\ \E online_only \in BOOLEAN, query_ok \in BOOLEAN, cap \in FanoutCaps :
       LET addressed == GetResponderTokens(responders, online_only, query_ok)
           tokens    == {addressed[i] : i \in 1..Len(addressed)}
       IN  \E raised \in (IF tokens = {} THEN {FALSE} ELSE BOOLEAN) :
           \E result \in [tokens -> IF raised THEN {"sent"} ELSE SendResults] :
              LET res == SendNotificationToRespondersIn(responders, cap,
                                                        online_only, query_ok,
                                                        result, raised)
              IN  /\ responders' = res.responders
                  /\ log' = [log EXCEPT ![1] =
                               <<[type |-> "fanout",
                                  online_only |-> online_only,
                                  query_ok |-> query_ok,
                                  cap |-> cap,
                                  attempts |-> res.attempts,
                                  chunks |-> res.chunks,
                                  tokens |-> IF raised THEN {} ELSE tokens,
                                  result |-> result,
                                  success_count |-> res.success_count,
                                  failure_count |-> res.failure_count,
                                  error |-> res.error]>>]
    /\ UNCHANGED <<batch_size, image_job, fetch_job, scroll, limit, mode, pc, is_running, stop_requested, cycles,
                   documents, pos, staged, total_committed, batch_number,
                   committed, returned, stats, dest, snapshot>>

\* an external actor (the responder's app) sets the responder online
SetOnline(r) ==
    /\ responders[r].status = "offline"
    /\ responders' = [responders EXCEPT ![r].status = "online"]
    /\ UNCHANGED <<batch_size, image_job, fetch_job, scroll, limit, mode, pc, is_running, stop_requested, cycles,
                   documents, pos, staged, total_committed, batch_number,
                   committed, returned, stats, log, dest, snapshot>>

InitNotify ==
    /\ InitCommon
    /\ mode = [p \in Inst |-> "single"]
    /\ pc = [p \in Inst |-> "off"]
    /\ responders \in AnyResponders

NextNotify ==
    \/ Fanout
    \/ \E r \in DOMAIN responders : SetOnline(r)

SpecNotify == InitNotify /\ [][NextNotify]_vars

(***************************************************************************)
(* One run of the pipeline, and a maintainer who calls                     *)
(* cleanup_invalid_tokens at any moment.                                   *)
(***************************************************************************)
\* one call of cleanup_invalid_tokens that finds a flagged responder (a call
\* that finds none changes nothing)
CleanupInvalidTokens ==
    /\ CleanedCount(responders) > 0
    /\ responders' = CleanupInvalidTokensIn(responders)
    /\ UNCHANGED <<batch_size, image_job, fetch_job, scroll, limit, mode, pc, is_running, stop_requested, cycles,
                   documents, pos, staged, total_committed, batch_number,
                   committed, returned, stats, log, dest, snapshot>>

NextCleanup == NextRun \/ CleanupInvalidTokens

SpecCleanup == InitFanout /\ [][NextCleanup]_vars

(***************************************************************************)
(* process_image_with_bbox called once on an image and a position string.  *)
(***************************************************************************)
Coordinates == {-5, 0, 5, 50, 70}

ImageSizes == {3, 8, 60}

PositionInputs ==
    {NoPosition,
     Position("garbage", FALSE, <<>>),
     Position("BBOX", FALSE, <<>>),
     Position("BBOX", TRUE, <<Num(1), Num(2), Num(3)>>),
     Position("BBOX", TRUE, <<Num(1), Num(2), Num(3), Num(4), Num(5)>>),
     Position("BBOX", TRUE, <<Num(1), <<"text", "a">>, Num(3), Num(4)>>),
     Position("bbox", TRUE, <<Num(1), Num(2), Num(3), Num(4)>>),
     Position("see BBOX", TRUE, <<Num(1), Num(2), Num(3), Num(4)>>),
     BoxString(10, 10, 50, 50)}
    \cup {BoxString(x1, y1, x2, y2) : x1 \in Coordinates, y1 \in Coordinates,
                                      x2 \in Coordinates, y2 \in Coordinates}

\* one call of process_image_with_bbox, up to the upload
ProcessImage ==
    /\ image_job.state = "called"
    /\ \E draw_ok \in BOOLEAN :
          image_job' =
             ImageJob("uploaded", image_job.image_position,
                      image_job.img_width, image_job.img_height,
                      ParseBboxCoordinates(image_job.image_position),
                      ProcessImageWithBbox(image_job.image_position,
                                           image_job.img_width,
                                           image_job.img_height, draw_ok))
    /\ UNCHANGED <<responders,
                   batch_size, fetch_job, scroll, limit, mode, pc, is_running, stop_requested, cycles,
                   documents, pos, staged, total_committed, batch_number,
                   committed, returned, stats, log, dest, snapshot>>

InitBbox ==
    /\ InitProcesses
    /\ mode = [p \in Inst |-> "single"]
    /\ pc = [p \in Inst |-> "off"]
    /\ dest = EmptyDest
    /\ snapshot = NoSnapshot
    /\ responders = NoneOnline
    /\ fetch_job = NoFetch
    /\ scroll = NoScroll
    /\ limit = NoLimit
    /\ \E image_position \in PositionInputs,
          img_width \in ImageSizes, img_height \in ImageSizes :
          image_job = ImageJob("called", image_position, img_width,
                               img_height, NoBox, Original)

NextBbox == ProcessImage

SpecBbox == InitBbox /\ [][NextBbox]_vars

(***************************************************************************)
(* The image step applied to one record.                                   *)
(***************************************************************************)
AttachImageToRecord ==
    /\ fetch_job.state = "read"
    /\ fetch_job' =
          [fetch_job EXCEPT !.state = "done",
                            !.result = AttachImage(fetch_job.doc, fetch_job.r1,
                                                   fetch_job.r2,
                                                   fetch_job.upload_meta)]
    /\ UNCHANGED <<responders,
                   batch_size, image_job, scroll, limit, mode, pc, is_running, stop_requested, cycles,
                   documents, pos, staged, total_committed, batch_number,
                   committed, returned, stats, log, dest, snapshot>>

InitAttach ==
    /\ InitProcesses
    /\ mode = [p \in Inst |-> "single"]
    /\ pc = [p \in Inst |-> "off"]
    /\ dest = EmptyDest
    /\ snapshot = NoSnapshot
    /\ responders = NoneOnline
    /\ image_job = NoJob
    /\ scroll = NoScroll
    /\ limit = NoLimit
    /\ \E k \in 1..Len(AllDocs), r1 \in Responses, upload_meta \in UploadMetas :
       \E r2 \in (IF r1 = "404" THEN Responses ELSE {"unused"}) :
          fetch_job = FetchJob("read", AllDocs[k], r1, r2, upload_meta,
                               NoFetch.result)

NextAttach == AttachImageToRecord

SpecAttach == InitAttach /\ [][NextAttach]_vars

(***************************************************************************)
(* One call of get_all_documents against a source whose scroll ends with   *)
(* an empty page.                                                          *)
(***************************************************************************)
MaxPages == 3

\* the sizes of the pages of a scroll: pages with hits, then empty pages
PageSizes ==
    UNION {{sz \in [1..n -> 0..MaxBatch] :
               /\ sz[n] = 0
               /\ \A i \in 1..(n - 1) : sz[i] = 0 => sz[i + 1] = 0
               /\ SumOver(sz, 1..n) <= Len(AllDocs)} : n \in 1..(MaxPages + 1)}

\* the pages of these sizes, cut from the index in order
PagesOf(sz, ids) ==
    [i \in 1..Len(sz) |->
        Page(SubSeq(AllDocs, SumOver(sz, 1..(i - 1)) + 1, SumOver(sz, 1..i)),
             ids[i])]

\* client.search(index, body, scroll="1m") and the first batch
SearchWithScroll ==
    /\ scroll.state = "searching"
    /\ LET response == scroll.source[1]
       IN  scroll' = Scroll(IF ScrollGoesOn(response) THEN "scrolling"
                                                      ELSE "returned",
                            scroll.source, 1, response, response.hits)
    /\ UNCHANGED <<responders, image_job, fetch_job, limit,
                   batch_size, mode, pc, is_running, stop_requested, cycles,
                   documents, pos, staged, total_committed, batch_number,
                   committed, returned, stats, log, dest, snapshot>>

\* (mutant) one continuation request, whatever it returns
ScrollOnce ==
    /\ scroll.state = "scrolling"
    /\ LET response == scroll.source[scroll.received + 1]
       IN  scroll' = Scroll("returned", scroll.source, scroll.received + 1,
                            response, scroll.documents \o response.hits)
    /\ UNCHANGED <<responders, image_job, fetch_job, limit,
                   batch_size, mode, pc, is_running, stop_requested, cycles,
                   documents, pos, staged, total_committed, batch_number,
                   committed, returned, stats, log, dest, snapshot>>

\* one turn of the while loop: client.scroll(scroll_id, scroll="1m"), the
\* hits appended, and the test of the loop
ScrollNext ==
    /\ scroll.state = "scrolling"
    /\ LET response == scroll.source[scroll.received + 1]
       IN  scroll' = Scroll(IF ScrollGoesOn(response) THEN "scrolling"
                                                      ELSE "returned",
                            scroll.source, scroll.received + 1,
                            response, scroll.documents \o response.hits)
    /\ UNCHANGED <<responders, image_job, fetch_job, limit,
                   batch_size, mode, pc, is_running, stop_requested, cycles,
                   documents, pos, staged, total_committed, batch_number,
                   committed, returned, stats, log, dest, snapshot>>

\* a request raises ConnectionError / RequestError: logged and raised again,
\* nothing is returned
ScrollRaises ==
    /\ scroll.state \in {"searching", "scrolling"}
    /\ scroll' = [scroll EXCEPT !.state = "raised", !.documents = <<>>]
    /\ UNCHANGED <<responders, image_job, fetch_job, limit,
                   batch_size, mode, pc, is_running, stop_requested, cycles,
                   documents, pos, staged, total_committed, batch_number,
                   committed, returned, stats, log, dest, snapshot>>

InitScroll ==
    /\ InitProcesses
    /\ mode = [p \in Inst |-> "full-sync"]
    /\ pc = [p \in Inst |-> "off"]
    /\ dest = EmptyDest
    /\ snapshot = NoSnapshot
    /\ responders = NoneOnline
    /\ image_job = NoJob
    /\ fetch_job = NoFetch
    /\ limit = NoLimit
    /\ \E sz \in PageSizes :
       \E ids \in [1..Len(sz) -> BOOLEAN] :
          scroll = Scroll("searching", PagesOf(sz, ids), 0, Page(<<>>, FALSE),
                          <<>>)

NextScroll == SearchWithScroll \/ ScrollNext \/ ScrollRaises

\* the loop is one thread: a request that is due is made, and it returns or
\* raises
SpecScroll == InitScroll /\ [][NextScroll]_vars /\ WF_vars(NextScroll)

(***************************************************************************)
(* Vocabulary of the properties.                                           *)
(***************************************************************************)
\* the process is between runs or has finished
Idle(p) == pc[p] \in {"sleeping", "loop", "stopped", "exited"}

\* the last run of p has returned
RunDone(p) == Idle(p) /\ cycles[p] >= 1

Events(p, t) == {i \in 1..Len(log[p]) : log[p][i].type = t}

TokenOk(p) == \E i \in Events(p, "token") : log[p][i].ok

TokenFailed(p) == \E i \in Events(p, "token") : ~log[p][i].ok

HasIdentity(doc) == ~Falsy(doc._index) /\ ~Falsy(doc._id)

(***************************************************************************)
(* C1-C4, C10: one run of the incremental pipeline (SpecRun).              *)
(***************************************************************************)
IsCommit(e)   == e.type = "commit"
Succeeded(e)  == e.type = "commit" /\ e.committed > 0
FailedCommit(e) == e.type = "commit" /\ e.committed = 0

\* C1: a notification fanout happens only directly after a commit of the same
\* run that reported a count > 0, with that count; a statistics refresh only
\* directly after that fanout; nothing of the two follows a commit that
\* reported 0.
C1_FanoutOnlyAfterCommit ==
    \A p \in Inst : \A i \in 1..Len(log[p]) :
        /\ log[p][i].type = "notify" =>
              /\ i > 1
              /\ Succeeded(log[p][i - 1])
              /\ log[p][i].count = log[p][i - 1].committed
        /\ log[p][i].type = "refresh" =>
              /\ i > 2
              /\ log[p][i - 1].type = "notify"
              /\ Succeeded(log[p][i - 2])
        /\ (FailedCommit(log[p][i]) /\ i < Len(log[p])) =>
              log[p][i + 1].type \notin {"notify", "refresh"}

\* a run in which one commit reported 0 and a later one was followed by its
\* fanout and refresh
C1_Witness ==
    \E p \in Inst : \E i \in Events(p, "commit") : \E j \in Events(p, "refresh") :
        FailedCommit(log[p][i]) /\ i < j

\* sizes of the commit operations of the run, in order
RECURSIVE CommitSizes(_)
CommitSizes(l) ==
    IF l = <<>> THEN <<>>
    ELSE IF IsCommit(Head(l)) THEN <<Len(Head(l).ids)>> \o CommitSizes(Tail(l))
         ELSE CommitSizes(Tail(l))

\* ceil(N/B) batches: floor(N/B) of size B, then N mod B when nonzero
ExpectedSizes(N, B) ==
    [k \in 1..((N + B - 1) \div B) |-> IF k * B <= N THEN B ELSE N % B]

AllHaveIdentity(docs) == \A k \in 1..Len(docs) : HasIdentity(docs[k])

\* C2 (as claimed): when the N records read all have an identity and every
\* commit of the run succeeded, the finished run has made ceil(N/B) commits of
\* sizes B, ..., B, N mod B, and one fanout and one refresh per commit.
C2_CommitsPerRun ==
    \A p \in Inst :
        (/\ RunDone(p) /\ TokenOk(p)
         /\ AllHaveIdentity(documents[p])
         /\ \A i \in Events(p, "commit") : Succeeded(log[p][i]))
        => /\ CommitSizes(log[p])
                = ExpectedSizes(Len(documents[p]), EffectiveBatchSize(batch_size))
           /\ Cardinality(Events(p, "notify")) = Cardinality(Events(p, "commit"))
           /\ Cardinality(Events(p, "refresh")) = Cardinality(Events(p, "commit"))

\* the batches of the run whose persistence succeeded / raised
CommittedIds(p) ==
    UNION {{log[p][i].ids[j] : j \in 1..Len(log[p][i].ids)} :
              i \in {x \in Events(p, "commit") : Succeeded(log[p][x])}}

AttemptedIds(p) ==
    UNION {{log[p][i].ids[j] : j \in 1..Len(log[p][i].ids)} :
              i \in Events(p, "commit")}

FailedIds(p) ==
    UNION {{log[p][i].ids[j] : j \in 1..Len(log[p][i].ids)} :
              i \in {x \in Events(p, "commit") : FailedCommit(log[p][x])}}

\* C3: a commit that raises reports 0, is followed by no fanout or refresh,
\* and does not end the run: the records after it are still processed; the
\* run returns the sum of the sizes of the batches that succeeded, and the
\* records of a failed batch are not in the (initially empty) destination.
C3_FailedBatchSkipped ==
    \A p \in Inst :
        /\ \A i \in Events(p, "commit") :
              /\ log[p][i].committed \in {0, Len(log[p][i].ids)}
              /\ (FailedCommit(log[p][i]) /\ i < Len(log[p])) =>
                     log[p][i + 1].type = "enrich"
        /\ total_committed[p] =
              SumOver([i \in 1..Len(log[p]) |->
                          IF Succeeded(log[p][i]) THEN Len(log[p][i].ids) ELSE 0],
                      1..Len(log[p]))
        /\ (RunDone(p) /\ TokenOk(p)) =>
              /\ returned[p] = total_committed[p]
              /\ pos[p] = Len(documents[p]) + 1
              /\ FailedIds(p) \cap DOMAIN dest = {}

\* a finished run of three batches of which exactly the second failed
C3_Witness ==
    \E p \in Inst :
        /\ RunDone(p)
        /\ Cardinality(Events(p, "commit")) = 3
        /\ \E i, j, k \in Events(p, "commit") :
              /\ i < j /\ j < k
              /\ Succeeded(log[p][i]) /\ FailedCommit(log[p][j])
              /\ Succeeded(log[p][k])
        /\ returned[p] = 2

\* C4 (as claimed): in a finished run, every record read that has an identity
\* was part of a commit attempt, however its enrichment went.
C4_EnrichFailureStillStaged ==
    \A p \in Inst :
        (RunDone(p) /\ TokenOk(p)) =>
            \A k \in 1..Len(documents[p]) :
                HasIdentity(documents[p][k]) =>
                    DocId(documents[p][k]) \in AttemptedIds(p)

TokenRequests(p) == Cardinality(Events(p, "token"))

\* what a failed token request leaves of the run: nothing fetched, staged,
\* committed, notified or refreshed; 0 returned; the run counted as failed
AbortedByToken(p) ==
    /\ Events(p, "enrich") \cup Events(p, "commit")
          \cup Events(p, "notify") \cup Events(p, "refresh") = {}
    /\ staged[p] = <<>>
    /\ RunDone(p)
    /\ returned[p] = 0
    /\ stats[p].total_processed = 1
    /\ stats[p].total_failed = 1
    /\ stats[p].total_successful = 0

\* no image is fetched before the token has been obtained
TokenBeforeFetch(p) ==
    \A i \in Events(p, "enrich") :
        \E j \in Events(p, "token") : j < i /\ log[p][j].ok

\* C10 (as claimed): every run requests the token exactly once, before any
\* image fetch; a failed request aborts the run.
C10_TokenExactlyOncePerRun ==
    \A p \in Inst :
        /\ RunDone(p) => TokenRequests(p) = 1
        /\ TokenBeforeFetch(p)
        /\ TokenFailed(p) => AbortedByToken(p)

\* C10 (amended): a run requests the token at most once, and exactly once
\* when the source returned at least one record (after the source query,
\* before any image fetch); a failed request aborts the run.
C10_TokenOncePerNonEmptyRun ==
    \A p \in Inst :
        /\ TokenRequests(p) <= 1
        /\ (RunDone(p) /\ documents[p] /= <<>>) => TokenRequests(p) = 1
        /\ (RunDone(p) /\ documents[p] = <<>>) => TokenRequests(p) = 0
        /\ TokenBeforeFetch(p)
        /\ TokenFailed(p) => AbortedByToken(p)

\* a run aborted by the token request although records with an identity
\* had been read
C10_Witness ==
    \E p \in Inst :
        /\ TokenFailed(p)
        /\ RunDone(p)
        /\ \E k \in 1..Len(documents[p]) : HasIdentity(documents[p][k])

(***************************************************************************)
(* C5-C6, C8-C9: the continuous loop, re-processing and the external       *)
(* actor (Spec).                                                           *)
(***************************************************************************)
\* C5: every document of the destination is stored under the key
\* <collection>_<id> of the record it was made from, there is one document
\* per (collection, id), and a commit creates a document only for an
\* identity that had none: committing a batch whose identities are all
\* persisted already creates no document, it overwrites.
C5_DeterministicKey ==
    /\ \A k \in DOMAIN dest :
           k = dest[k].source_index \o "_" \o dest[k].source_id
    /\ Cardinality(DOMAIN dest) = Cardinality(PersistedIdentities(dest))
    /\ \A p \in Inst : \A i \in Events(p, "commit") :
           log[p][i].created =
               IF Succeeded(log[p][i]) THEN log[p][i].fresh ELSE 0

\* a later cycle has re-committed records that were persisted before
C5_Witness ==
    \E p \in Inst : \E i \in Events(p, "commit") :
        /\ cycles[p] = MaxCycles
        /\ Succeeded(log[p][i])
        /\ log[p][i].fresh = 0
        /\ log[p][i].created = 0
        /\ DOMAIN dest /= {}

\* the positions of a cycle in flight
InFlight == {"reading", "token", "enriching", "committing", "notifying",
             "refreshing"}

\* the run of p went to its end: every record read was dealt with, nothing
\* is left staged, and every successful commit had its fanout and refresh
RunComplete(p) ==
    /\ staged[p] = <<>>
    /\ TokenOk(p) => pos[p] = Len(documents[p]) + 1
    /\ LET ok == {i \in Events(p, "commit") : Succeeded(log[p][i])}
       IN  /\ Cardinality(Events(p, "notify")) = Cardinality(ok)
           /\ Cardinality(Events(p, "refresh")) = Cardinality(ok)

\* C8: a stop request only clears the flag; the cycle in flight when it
\* arrives runs to its end (records enriched, committed, announced), no new
\* cycle starts afterwards, and the loop ends at its next look at the flag.
C8_CooperativeStop ==
    [][\A p \in Inst :
          /\ StopPipeline(p) =>
                /\ ~is_running'[p]
                /\ UNCHANGED <<pc, documents, pos, staged, log, dest, cycles>>
          /\ stop_requested[p] \notin {"no", "start"} =>
                /\ cycles'[p] = cycles[p]
                /\ ~is_running'[p]
                /\ pc[p] \in InFlight => pc'[p] \in InFlight \cup {"sleeping"}
                /\ (pc[p] \in InFlight /\ pc'[p] = "sleeping") => RunComplete(p)'
                /\ pc[p] = "sleeping" => pc'[p] \in {"sleeping", "loop"}
                /\ pc[p] = "loop" => pc'[p] \in {"loop", "stopped"}
      ]_vars

\* the loop has ended after a stop that arrived before the cycle's records
\* were staged, and that cycle still committed, announced and refreshed
C8_Witness ==
    \E p \in Inst :
        /\ pc[p] = "stopped"
        /\ stop_requested[p] \in {"reading", "token", "enriching"}
        /\ Events(p, "refresh") /= {}
        /\ RunComplete(p)

\* the phase of the pipeline run, read off the position of the process
Phase(p) ==
    CASE pc[p] = "reading" -> "reading"
      [] pc[p] \in {"token", "enriching"} -> "enriching"
      [] pc[p] = "committing" -> "committing"
      [] pc[p] \in {"notifying", "refreshing"} -> "notifying/refreshing"
      [] pc[p] = "stopped" -> "stopped"
      [] OTHER -> "idle"

\* the order of the phases, the returns to idle of a cycle that ends early
\* (nothing read, token refused, nothing staged, commit failed), and the stop
PhaseEdges ==
    {<<"idle", "reading">>, <<"reading", "enriching">>,
     <<"enriching", "committing">>, <<"committing", "notifying/refreshing">>,
     <<"notifying/refreshing", "idle">>,
     <<"reading", "idle">>, <<"enriching", "idle">>, <<"committing", "idle">>,
     <<"idle", "stopped">>}

C6_StatusSetOnlyOnce ==
    [][(\E p \in Inst : StoreBatch(p)) =>
          \A k \in DOMAIN dest : dest'[k].status = dest[k].status]_vars

(***************************************************************************)
(* C7: two instances against the same source and destination (SpecTwo).    *)
(***************************************************************************)
BothDone == \A p \in Inst : pc[p] = "exited"

\* C7: with two instances running at the same time the destination holds
\* exactly one document per (collection, id), keyed <collection>_<id>, and
\* its document set is the union of the sets each instance committed, which
\* is the set one instance alone produces when both commit the same records.
C7_TwoInstancesOneDocumentPerIdentity ==
    /\ DOMAIN dest = CommittedIds(1) \cup CommittedIds(2)
    /\ Cardinality(DOMAIN dest) = Cardinality(PersistedIdentities(dest))
    /\ \A k \in DOMAIN dest :
           /\ k = dest[k].source_index \o "_" \o dest[k].source_id
           /\ \E p \in Inst : \E i \in 1..Len(documents[p]) :
                  /\ HasIdentity(documents[p][i])
                  /\ k = DocId(documents[p][i])
    /\ \A p \in Inst :
           (BothDone /\ \A q \in Inst : CommittedIds(q) \subseteq CommittedIds(p))
              => DOMAIN dest = CommittedIds(p)

\* both instances have finished, both committed (and announced) a common
\* record, and the first made several commits
C7_Witness ==
    /\ BothDone
    /\ CommittedIds(1) \cap CommittedIds(2) /= {}
    /\ CommittedIds(1) /= CommittedIds(2)
    /\ \A p \in Inst : Events(p, "notify") /= {}
    /\ Cardinality({i \in Events(1, "commit") : Succeeded(log[1][i])}) > 1

(***************************************************************************)
(* C11: a failing source query (SpecRun).                                  *)
(***************************************************************************)
ReadFailed(p) == log[p] /= <<>> /\ log[p][1].type = "read_error"

\* C11: when the source query raises, the run ends there: nothing is
\* enriched, staged, committed, announced or refreshed, the destination and
\* the snapshot are left as they were, the run returns 0, and the run
\* statistics get total_failed + 1 and a last_error.
C11_SourceErrorIsFatal ==
    [][\A p \in Inst :
          /\ ReadFailed(p)' =>
                /\ Len(log'[p]) = 1
                /\ staged'[p] = <<>>
                /\ returned'[p] = 0
                /\ pc'[p] = AfterRun(mode[p])
          /\ (pc[p] = "reading" /\ pc'[p] /= "reading" /\ ReadFailed(p)') =>
                /\ dest' = dest
                /\ snapshot' = snapshot
                /\ stats'[p].total_failed = stats[p].total_failed + 1
                /\ stats'[p].total_successful = stats[p].total_successful
                /\ stats'[p].last_error /= "None"
      ]_vars

\* a run has ended on a source error
C11_Witness ==
    \E p \in Inst :
        /\ pc[p] = "exited"
        /\ ReadFailed(p)
        /\ stats[p].total_failed > 0
        /\ returned[p] = 0

(***************************************************************************)
(* C12: the exit code of a one-run process (SpecRun).                      *)
(***************************************************************************)
Ended(p) == pc[p] \in {"exited", "init_failed"}

\* the run failed: source error, token refused, or nothing committed
\* because persistence failed
RunFailed(p) ==
    \/ ReadFailed(p)
    \/ TokenFailed(p)
    \/ returned[p] = 0 /\ FailedIds(p) /= {}

\* C12: a one-run process whose run failed exits with a non-zero code, and
\* exit code 0 is given only when the run did not fail.
C12_FailedRunExitsNonZero ==
    \A p \in Inst :
        (Ended(p) /\ mode[p] /= "continuous") =>
            /\ RunFailed(p) => ExitCode(p) /= 0
            /\ ExitCode(p) = 0 => (pc[p] = "exited" /\ ~RunFailed(p))

(***************************************************************************)
(* C13: the statistics scan (SpecScan).                                    *)
(***************************************************************************)
FourStatuses == {"accepted", "rejected", "done"}

\* C13: for every set of persisted events the scan gives total = number of
\* events = pending + accepted + rejected + done, with every event whose
\* status is not accepted, rejected or done (in any case) counted as
\* pending.
C13_EveryEventCountedOnce ==
    LET s == CalculateEventStatistics(dest)
    IN  /\ s.total = Cardinality(DOMAIN dest)
        /\ s.total = s.pending + s.accepted + s.rejected + s.done
        /\ s.pending = Cardinality({k \in DOMAIN dest :
                                      Lower(dest[k].status) \notin FourStatuses})

(***************************************************************************)
(* C14, C16: the fanout and the refresh inside a run (SpecFanout).         *)
(***************************************************************************)
NobodyOnline ==
    \A r \in DOMAIN responders :
        responders[r].status /= "online" /\ ~responders[r].token_invalid

\* the run went on after event i of its log: the refresh follows a fanout
FollowedByRefresh(p, i) ==
    IF i < Len(log[p]) THEN log[p][i + 1].type = "refresh"
                       ELSE pc[p] = "refreshing"

\* C14: with no responder online the fanout addresses no token and returns
\* success_count 0 and failure_count 0 without an error, and the run goes
\* on with the statistics refresh and the batches that follow.
C14_NoTokensIsNotAnError ==
    \A p \in Inst :
        /\ \A i \in Events(p, "notify") :
              /\ NobodyOnline => log[p][i].total_tokens = 0
              /\ log[p][i].total_tokens = 0 =>
                    /\ log[p][i].success_count = 0
                    /\ log[p][i].failure_count = 0
                    /\ ~log[p][i].error
                    /\ FollowedByRefresh(p, i)
        /\ (pc[p] = "exited" /\ NobodyOnline) => RunComplete(p)

\* a run of several batches has ended, each fanout having found no token
C14_Witness ==
    \E p \in Inst :
        /\ pc[p] = "exited"
        /\ NobodyOnline
        /\ Cardinality({i \in Events(p, "notify") :
                           log[p][i].total_tokens = 0}) > 1
        /\ Cardinality(Events(p, "refresh")) > 1

(***************************************************************************)
(* C15: pacing between the batches of a run (SpecRun).                     *)
(***************************************************************************)
\* C15: every successful commit of a run that is followed by the enrichment
\* of further records has a pacing delay between it and those records.
C15_PacingAfterCommit ==
    \A p \in Inst : \A i \in Events(p, "commit") :
        (Succeeded(log[p][i]) /\ \E j \in Events(p, "enrich") : j > i)
            => log[p][i].delays > 0

\* the counts reported by the commits of the run, added up
CommittedTotal(p) ==
    SumOver([i \in 1..Len(log[p]) |->
                IF IsCommit(log[p][i]) THEN log[p][i].committed ELSE 0],
            Events(p, "commit"))

\* a fanout that reached nobody or raised; a refresh that stored nothing
FailedNotify(e)  == e.type = "notify" /\ (e.success_count = 0 \/ e.error)
FailedRefresh(e) == e.type = "refresh" /\ ~e.ok

\* C16: whatever the fanout and the refresh do (no token reached, send
\* errors, an exception, a failed scan or write) they leave the destination
\* and the committed count alone, the refresh follows the fanout, the
\* records that remain are processed, and the run returns the sum of the
\* counts its commits reported.
C16_SideEffectsAreBestEffort ==
    [][\A p \in Inst :
          /\ (pc[p] \in {"notifying", "refreshing"} /\ pc'[p] /= pc[p]) =>
                /\ dest' = dest
                /\ total_committed'[p] = total_committed[p]
          /\ (pc[p] = "notifying" /\ pc'[p] /= pc[p]) => pc'[p] = "refreshing"
          /\ (pc[p] = "refreshing" /\ pc'[p] /= pc[p]) =>
                IF pos[p] <= Len(documents[p])
                THEN pc'[p] = "enriching"
                ELSE pc'[p] = "exited" /\ returned'[p] = total_committed[p]
          /\ (pc'[p] = "exited" /\ TokenOk(p)') =>
                /\ returned'[p] = CommittedTotal(p)'
                /\ RunComplete(p)'
      ]_vars

\* a run has ended with a positive count although a fanout and a refresh
\* failed, and it committed another batch after that fanout
C16_Witness ==
    \E p \in Inst :
        /\ pc[p] = "exited"
        /\ returned[p] > 1
        /\ \E i \in Events(p, "notify"), j \in Events(p, "refresh"),
              k \in Events(p, "commit") :
              /\ FailedNotify(log[p][i]) /\ log[p][i].failure_count > 0
              /\ FailedRefresh(log[p][j])
              /\ i < k /\ j < k /\ Succeeded(log[p][k])

(***************************************************************************)
(* C17: tokens that FCM refuses (SpecNotify).                              *)
(***************************************************************************)
\* the tokens of the last call whose send failed with a message that
\* contains "not found" or "invalid", and those that failed otherwise
RefusedTokens(e) == {t \in e.tokens : IsInvalidTokenError(e.result[t])}

\* the responders that call addressed under token t
Holders(resp, online_only, t) ==
    {r \in DOMAIN resp : /\ Strip(resp[r].notification_token) = t
                         /\ online_only => resp[r].status = "online"}

\* C17: when the send to a token fails with "not found" or "invalid", every
\* responder addressed under that token is offline with token_invalid set
\* after the call, so no online responder holds it and the next online-only
\* fanout does not address it; a call without such a failure changes no
\* responder.
C17_RefusedTokenGoesOffline ==
    [][Fanout =>
          LET e == log'[1][1]
          IN  /\ \A t \in RefusedTokens(e) :
                    /\ \A r \in Holders(responders, e.online_only, t) :
                          /\ responders'[r].status = "offline"
                          /\ responders'[r].token_invalid
                    /\ \A i \in 1..Len(GetResponderTokens(responders', TRUE, TRUE)) :
                          GetResponderTokens(responders', TRUE, TRUE)[i] /= t
              /\ RefusedTokens(e) = {} => responders' = responders
      ]_vars


(***************************************************************************)
(* Image annotation.                                                       *)
(***************************************************************************)
Uploaded == image_job.state = "uploaded"

\* a rectangle was drawn on the uploaded bytes
Drawn == Uploaded /\ image_job.uploaded /= Original

\* the position string has the NAME (a,b,c,d) shape / four coordinates
HasShape(s) == s.parens

FourCoordinates(s) == Len(s.fields) = 4

\* C18: "BBOX (10,10,50,50)" parses to the rectangle (10,10,50,50); a string
\* without the NAME (a,b,c,d) shape ("garbage") or with a number of
\* coordinates other than four ("BBOX (1,2,3)") parses to no annotation, and
\* the bytes uploaded are then the original image bytes.
C18_ParseBbox ==
    Uploaded =>
       /\ image_job.image_position = BoxString(10, 10, 50, 50)
             => image_job.parsed = <<10, 10, 50, 50>>
       /\ (~HasShape(image_job.image_position)
            \/ ~FourCoordinates(image_job.image_position))
             => /\ image_job.parsed = NoBox
                /\ image_job.uploaded = Original

C18_Witness ==
    /\ Uploaded
    /\ image_job.image_position
          = Position("BBOX", TRUE, <<Num(1), Num(2), Num(3)>>)
    /\ image_job.parsed = NoBox
    /\ image_job.uploaded = Original

\* max(0, min(v, size))
Clamped(v, size) == Max(0, Min(v, size))

\* on the axis of coordinates lo and hi (1 and 3, or 2 and 4) of an image
\* of the given size: when the clamped box has no extent, the drawn box
\* keeps the clamped lower coordinate and has an extent of exactly 10
MinimumExtentOnAxis(lo, hi, size) ==
    Clamped(image_job.parsed[hi], size) <= Clamped(image_job.parsed[lo], size)
       => /\ image_job.uploaded.rectangle[lo]
               = Clamped(image_job.parsed[lo], size)
          /\ image_job.uploaded.rectangle[hi]
               = image_job.uploaded.rectangle[lo] + 10

MinimumExtent ==
    Drawn => /\ MinimumExtentOnAxis(1, 3, image_job.img_width)
             /\ MinimumExtentOnAxis(2, 4, image_job.img_height)

\* the drawn rectangle reaches at least from (5,5) to (15,15)
AtLeastFiveToFifteen ==
    /\ image_job.uploaded.rectangle[1] <= 5
    /\ image_job.uploaded.rectangle[2] <= 5
    /\ image_job.uploaded.rectangle[3] >= 15
    /\ image_job.uploaded.rectangle[4] >= 15

\* C19 as stated: a box (5,5,5,5) against an image of any width and height is
\* drawn as a rectangle of at least (5,5,15,15), and a clamped box without
\* extent on an axis keeps its lower coordinate and gets an extent of 10.
C19_DegenerateBoxOnAnyImage ==
    /\ Drawn /\ image_job.parsed = <<5, 5, 5, 5>> => AtLeastFiveToFifteen
    /\ MinimumExtent

\* C19: a box (5,5,5,5) against an image at least 5 wide and 5 high is drawn
\* as exactly (5,5,15,15); against any image, a clamped box without extent on
\* an axis keeps its clamped lower coordinate and gets an extent of exactly
\* 10 on that axis.
C19_MinimumExtent ==
    /\ Drawn /\ image_job.parsed = <<5, 5, 5, 5>>
          /\ image_job.img_width >= 5 /\ image_job.img_height >= 5
          => image_job.uploaded.rectangle = <<5, 5, 15, 15>>
    /\ MinimumExtent

C19_Witness ==
    /\ Drawn
    /\ image_job.parsed = <<5, 5, 5, 5>>
    /\ image_job.img_width >= 5 /\ image_job.img_height >= 5
    /\ image_job.uploaded.rectangle = <<5, 5, 15, 15>>

\* C20: the rectangle that is drawn has all x coordinates in [0, W] and all y
\* coordinates in [0, H], whatever the parsed box and the image.
C20_DrawnWithinImage ==
    Drawn =>
       /\ \A i \in {1, 3} : /\ image_job.uploaded.rectangle[i] >= 0
                            /\ image_job.uploaded.rectangle[i]
                                  <= image_job.img_width
       /\ \A i \in {2, 4} : /\ image_job.uploaded.rectangle[i] >= 0
                            /\ image_job.uploaded.rectangle[i]
                                  <= image_job.img_height

(***************************************************************************)
(* Cleanup of flagged responders.                                          *)
(***************************************************************************)
\* the step clears the token of r or resets its invalid-token flag
Cleared(r) ==
    \/ /\ responders[r].notification_token /= NoneToken
       /\ responders'[r].notification_token = NoneToken
    \/ responders[r].token_invalid /\ ~responders'[r].token_invalid

\* C21: no step of a pipeline run (its notification fanout included) clears a
\* responder's notification token or resets its invalid-token flag; only a
\* call of cleanup_invalid_tokens does, and that call changes only
\* responders whose invalid-token flag is set.
C21_CleanupOnlyWhenCalled ==
    [][/\ (\E r \in DOMAIN responders : Cleared(r)) => CleanupInvalidTokens
       /\ CleanupInvalidTokens =>
             \A r \in DOMAIN responders :
                ~responders[r].token_invalid => responders'[r] = responders[r]
      ]_vars

\* a fanout of the run flagged one responder, the cleanup was called, and
\* the other responder is as it was
C21_Witness ==
    /\ \E i \in Events(1, "notify") : log[1][i].failure_count > 0
    /\ \E r \in DOMAIN responders :
          /\ responders[r].notification_token = NoneToken
          /\ ~responders[r].token_invalid
    /\ \E r \in DOMAIN responders :
          /\ responders[r].notification_token /= NoneToken
          /\ responders[r].status = "online"

(***************************************************************************)
(* Batches of one run.                                                     *)
(***************************************************************************)
\* the records (by document id, distinct within one read) of commit event i
IdsIn(p, i) == {log[p][i].ids[j] : j \in 1..Len(log[p][i].ids)}

\* C22: every record read in a run is part of at most one commit attempt of
\* that run, whether the attempt succeeded or failed.
C22_NoRetryWithinRun ==
    \A p \in Inst : \A i, j \in Events(p, "commit") :
        i /= j => IdsIn(p, i) \cap IdsIn(p, j) = {}

\* a run that has ended in which a commit failed and a later one was attempted
C22_Witness ==
    \E p \in Inst :
        /\ RunDone(p)
        /\ \E i, j \in Events(p, "commit") :
              /\ i < j
              /\ FailedCommit(log[p][i])
              /\ IdsIn(p, i) /= {} /\ IdsIn(p, j) /= {}

\* every record of the batch staged by p is in d with the data of this attempt
BatchPresent(p, d) ==
    \A i \in 1..Len(staged[p]) :
        /\ DocId(staged[p][i]) \in DOMAIN d
        /\ d[DocId(staged[p][i])] = FirestoreData(staged[p][i])

\* C23: a commit attempt either leaves every record of the batch in the
\* destination with that attempt's data and reports the batch's size, or
\* writes nothing and reports 0; documents of other records are untouched.
C23_BatchIsAtomic ==
    [][\A p \in Inst : StoreBatch(p) =>
          /\ \/ committed'[p] = 0 /\ dest' = dest
             \/ committed'[p] = Len(staged[p]) /\ BatchPresent(p, dest')
          /\ \A k \in DOMAIN dest :
                k \notin {DocId(staged[p][i]) : i \in 1..Len(staged[p])}
                   => k \in DOMAIN dest' /\ dest'[k] = dest[k]
      ]_vars

\* a batch of more than one record has just been committed by one process
\* over documents that the other process had written
C23_Witness ==
    \E p \in Inst :
        /\ pc[p] = "notifying"
        /\ Len(staged[p]) > 1
        /\ committed[p] = Len(staged[p])
        /\ BatchPresent(p, dest)
        /\ log[p][Len(log[p])].type = "commit"
        /\ log[p][Len(log[p])].fresh = 0

\* the place in the list read by p of the record with this document id
PosOf(p, id) ==
    CHOOSE k \in 1..Len(documents[p]) : DocId(documents[p][k]) = id

\* the places in read order of the records of commit event i, as staged
Places(p, i) == [j \in 1..Len(log[p][i].ids) |-> PosOf(p, log[p][i].ids[j])]

\* C24: the records of a run are enriched one at a time in the order read
\* and staged in that order; every record of a batch precedes every record
\* of the next batch; a record is enriched before the commit of its batch;
\* and no record is enriched while a full batch is waiting for its commit,
\* its fanout or its refresh.
C24_SequentialInOrder ==
    \A p \in Inst :
        /\ \A i, j \in Events(p, "enrich") :
              i < j => log[p][i].k < log[p][j].k
        /\ \A i \in Events(p, "commit") :
              /\ \A a, b \in 1..Len(log[p][i].ids) :
                    a < b => Places(p, i)[a] < Places(p, i)[b]
              /\ \A a \in 1..Len(log[p][i].ids) :
                    \E e \in Events(p, "enrich") :
                       e < i /\ log[p][e].k = Places(p, i)[a]
              /\ \A j \in Events(p, "commit") : i < j =>
                    \A a \in 1..Len(log[p][i].ids), b \in 1..Len(log[p][j].ids) :
                       Places(p, i)[a] < Places(p, j)[b]
        /\ \A i \in Events(p, "enrich") :
              i > 1 => /\ ~Succeeded(log[p][i - 1])
                       /\ log[p][i - 1].type /= "notify"
        /\ pc[p] = "enriching" => ~BatchFull(staged[p], batch_size)

\* a finished run of two batches, the first one of more than one record
C24_Witness ==
    \E p \in Inst :
        /\ RunDone(p)
        /\ \E i, j \in Events(p, "commit") :
              /\ i < j
              /\ Len(log[p][i].ids) > 1
              /\ Succeeded(log[p][i]) /\ Succeeded(log[p][j])
        /\ \E i \in Events(p, "refresh"), j \in Events(p, "enrich") : i < j

(***************************************************************************)
(* The image step of one record.                                           *)
(***************************************************************************)
Attached == fetch_job.state = "done" /\ ~fetch_job.result.skipped

\* the outcome of the last request issued
FinalResponse ==
    IF fetch_job.r1 = "404" THEN fetch_job.r2 ELSE fetch_job.r1

\* how many of the requests issued went to this URL
TimesRequested(url) ==
    Cardinality({i \in 1..Len(fetch_job.result.requests) :
                    fetch_job.result.requests[i] = url})

\* C25: at most two image requests are issued for a record: the primary URL
\* once, and the alternate URL once and only when the primary returned 404;
\* a final outcome other than a 200 with a body leaves image_url unset and
\* the record goes on to be staged.
C25_FetchRequests ==
    Attached =>
       LET primary   == BuildImageUrl(fetch_job.doc._index, fetch_job.doc._id)
           requests  == fetch_job.result.requests
       IN  /\ Len(requests) <= 2
           /\ requests[1] = primary
           /\ TimesRequested(primary) = 1
           /\ Len(requests) = 2 <=> fetch_job.r1 = "404"
           /\ Len(requests) = 2 => requests[2] /= primary
           /\ FinalResponse \in {"200-empty", "404", "500"} =>
                 /\ fetch_job.result.doc._source.image_url = NoUrl
                 /\ fetch_job.result.reaches_append

\* the image of the record was fetched: a 200 with a body
FetchSucceeded == FinalResponse = "200"

UploadSucceeded == fetch_job.upload_meta /= NoMeta

\* C26: image_url is set on the record if and only if its image was fetched
\* and the upload succeeded, and it is then the token-bearing URL; when the
\* upload fails the record is as it was read and is still staged.
C26_ImageUrlOnlyAfterUpload ==
    Attached =>
       /\ fetch_job.result.doc._source.image_url /= fetch_job.doc._source.image_url
             <=> FetchSucceeded /\ UploadSucceeded
       /\ (FetchSucceeded /\ UploadSucceeded) =>
             fetch_job.result.doc._source.image_url
                = fetch_job.upload_meta.media_url_with_token
       /\ (FetchSucceeded /\ ~UploadSucceeded) =>
             /\ fetch_job.result.doc = fetch_job.doc
             /\ fetch_job.result.reaches_append

\* one record whose image was fetched from the alternate URL and uploaded,
\* and so carries the token-bearing URL
C26_Witness ==
    /\ Attached
    /\ fetch_job.r1 = "404" /\ fetch_job.r2 = "200"
    /\ UploadSucceeded
    /\ fetch_job.result.doc._source.image_url = "media_url_with_token"
    /\ fetch_job.result.reaches_append

(***************************************************************************)
(* One fanout.                                                             *)
(***************************************************************************)
\* the distinct tokens of the responders the call selects (none when the
\* query on the responders collection fails)
DistinctTokens(resp, online_only, query_ok) ==
    IF ~query_ok THEN {}
    ELSE {Strip(resp[r].notification_token) :
             r \in {x \in DOMAIN resp :
                       /\ online_only => resp[x].status = "online"
                       /\ resp[x].notification_token /= NoneToken
                       /\ Strip(resp[x].notification_token) /= ""}}

RECURSIVE Concat(_)
Concat(ss) == IF ss = <<>> THEN <<>> ELSE Head(ss) \o Concat(Tail(ss))

\* C27 (a step that is not SetOnline is a call of
\* send_notification_to_responders, described by the event it logs):
\* in a fanout that returns its summary, a send is attempted exactly
\* once to every distinct token of the selected responders, whatever the
\* other sends do; the attempts are made in consecutive sub-batches of at
\* most the cap (all but the last one full); and success_count plus
\* failure_count is the number of distinct tokens.
C27_EveryTokenOnce ==
    [][(~\E r \in DOMAIN responders : SetOnline(r)) =>
          LET e        == log'[1][1]
              distinct == DistinctTokens(responders, e.online_only, e.query_ok)
              cap      == Max(1, e.cap)
          IN  ~e.error =>
                /\ {e.attempts[i] : i \in 1..Len(e.attempts)} = distinct
                /\ Len(e.attempts) = Cardinality(distinct)
                /\ Concat(e.chunks) = e.attempts
                /\ \A c \in 1..Len(e.chunks) :
                      /\ Len(e.chunks[c]) >= 1
                      /\ Len(e.chunks[c]) <= cap
                      /\ c < Len(e.chunks) => Len(e.chunks[c]) = cap
                /\ e.success_count + e.failure_count = Cardinality(distinct)
                /\ e.success_count =
                      Cardinality({t \in distinct : e.result[t] = "sent"})
      ]_vars

\* the last fanout addressed two tokens in two sub-batches; the send to the
\* first token failed and the send to the second one succeeded
C27_Witness ==
    /\ log[1] /= <<>>
    /\ log[1][1].type = "fanout"
    /\ Len(log[1][1].chunks) > 1
    /\ log[1][1].result[log[1][1].attempts[1]] /= "sent"
    /\ log[1][1].success_count = 1
    /\ log[1][1].failure_count = 1

(***************************************************************************)
(* The statistics snapshot.                                                *)
(***************************************************************************)
\* every persisted event has one of the four statuses, in any case
OnlyKnownStatuses ==
    \A k \in DOMAIN dest : Lower(dest[k].status) \in valid_statuses

\* C28: the snapshot a refresh writes is the result of the scan of the
\* events persisted at that moment, whatever the snapshot was before: it
\* replaces the stored counts and is not added to them, so that with events
\* of the four statuses the written total is the number of events and the
\* four counters add up to it, also after earlier refreshes.
C28_RefreshIsFullRecomputation ==
    [][snapshot' /= snapshot =>
          /\ snapshot' = CalculateEventStatistics(dest)
          /\ OnlyKnownStatuses =>
                /\ snapshot'.total = Cardinality(DOMAIN dest)
                /\ snapshot'.pending + snapshot'.accepted
                      + snapshot'.rejected + snapshot'.done = snapshot'.total
      ]_vars

\* a snapshot written after every event had left the pending status, which
\* replaced whatever was stored or not before
C28_Witness ==
    /\ snapshot /= NoSnapshot
    /\ OnlyKnownStatuses
    /\ Cardinality(DOMAIN dest) > 1
    /\ snapshot.total = Cardinality(DOMAIN dest)
    /\ snapshot.pending = 0
    /\ snapshot.accepted > 0 /\ snapshot.done > 0

(***************************************************************************)
(* The full scan.                                                          *)
(***************************************************************************)
ScrollEnded == scroll.state \in {"returned", "raised"}

\* the hits of the first n pages of the source, in order
HitsOfPages(n) == Concat([i \in 1..n |-> scroll.source[i].hits])

\* every response received so far carried a scroll id
CursorsReceived ==
    \A i \in 1..scroll.received : scroll.source[i].has_scroll_id

\* the list returned is the concatenation of the pages received, in order;
\* when every response carried its scroll id, the requests went on exactly
\* until the first empty page, and the list is the whole content of the index
\* that the source handed out
ScrollSafe ==
    /\ scroll.state \in {"scrolling", "returned"} =>
          scroll.documents = HitsOfPages(scroll.received)
    /\ (scroll.state = "returned" /\ CursorsReceived) =>
          /\ scroll.source[scroll.received].hits = <<>>
          /\ \A i \in 1..(scroll.received - 1) : scroll.source[i].hits /= <<>>
          /\ scroll.documents = HitsOfPages(Len(scroll.source))
          /\ \A i, j \in 1..Len(scroll.documents) :
                i /= j => scroll.documents[i] /= scroll.documents[j]

\* C29: the full scan asks for the next page until an empty page is
\* returned, returns the pages received concatenated in order, nothing
\* dropped or repeated, and ends when the source returns an empty page.
C29_ScrollUntilEmptyPage ==
    /\ []ScrollSafe
    /\ (scroll.state = "searching") ~> ScrollEnded

\* a scan that returned after more than one continuation request, with the
\* hits of more than one page
C29_Witness ==
    /\ scroll.state = "returned"
    /\ CursorsReceived
    /\ scroll.received > 2
    /\ Len(scroll.documents) > Len(scroll.source[1].hits)
    /\ Len(scroll.source[1].hits) > 0

(***************************************************************************)
(* The limit argument.                                                     *)
(***************************************************************************)
\* the list the source returned to the run of p
Fetched(p) == log[p][1].fetched

Capped == ~limit.is_none /\ limit.value > 0

\* C30: with a cap L > 0 the run processes the first min(L, n) of the n
\* records the source returned, in source order; with no cap, or a cap that
\* is zero or negative, it processes all n; the records enriched are records
\* of that list only, and all of them that have an identity once the run has
\* gone through.
C30_LimitTruncatesAfterFetch ==
    \A p \in Inst : Events(p, "read") /= {} =>
        LET n == Len(Fetched(p))
        IN  /\ Capped =>
                  /\ Len(documents[p]) = Min(limit.value, n)
                  /\ \A k \in 1..Len(documents[p]) :
                        documents[p][k] = Fetched(p)[k]
            /\ ~Capped => documents[p] = Fetched(p)
            /\ \A i \in Events(p, "enrich") :
                  log[p][i].k \in 1..Len(documents[p])
            /\ (RunDone(p) /\ TokenOk(p)) =>
                  {log[p][i].k : i \in Events(p, "enrich")}
                     = {k \in 1..Len(documents[p]) : HasIdentity(documents[p][k])}

\* a finished run with a cap smaller than the number of records returned,
\* which committed as many records as the cap
C30_Witness ==
    \E p \in Inst :
        /\ RunDone(p) /\ TokenOk(p)
        /\ Capped
        /\ Len(Fetched(p)) > limit.value
        /\ Events(p, "commit") /= {}
        /\ returned[p] = limit.value

(***************************************************************************)
(* The continuous loop: cycles and the sleeps between them.                *)
(***************************************************************************)
\* the step ends the cycle that p had in flight
CycleEnds(p) == pc[p] \in InFlight /\ pc'[p] \notin InFlight

\* the step begins a cycle of p
CycleBegins(p) == pc[p] \notin InFlight /\ pc'[p] \in InFlight

\* C31: in continuous mode a cycle begins only from the loop test, with the
\* flag set and no cycle in flight; every cycle, failed or not, ends in the
\* sleep and leaves the flag alone; the sleep leads back to the loop test
\* only, so exactly one sleep lies between two cycles; and the loop test
\* starts the next cycle whenever the flag is still set.
C31_OneSleepBetweenCycles ==
    [][\A p \in Inst : mode[p] = "continuous" =>
          /\ CycleBegins(p) =>
                /\ pc[p] = "loop" /\ is_running[p]
                /\ pc'[p] = "reading" /\ cycles'[p] = cycles[p] + 1
          /\ cycles'[p] /= cycles[p] => CycleBegins(p)
          /\ CycleEnds(p) =>
                /\ pc'[p] = "sleeping"
                /\ is_running'[p] = is_running[p]
          /\ (pc[p] = "sleeping" /\ pc'[p] /= "sleeping") => pc'[p] = "loop"
          /\ (pc[p] /= "loop" /\ pc'[p] = "loop") =>
                pc[p] \in {"start", "sleeping"}
          /\ (pc[p] = "loop" /\ pc'[p] /= "loop" /\ is_running[p]) =>
                pc'[p] = "reading"
          /\ (is_running[p] /\ ~is_running'[p]) => stop_requested'[p] /= "no"
      ]_vars

\* a second cycle is under way after a first one that failed, with no stop
C31_Witness ==
    \E p \in Inst :
        /\ mode[p] = "continuous"
        /\ cycles[p] = 2
        /\ pc[p] \in InFlight
        /\ stats[p].total_failed > 0
        /\ stop_requested[p] = "no"

\* C32: a stop request delivered before the continuous loop has started
\* (during initialization, the handler being installed) takes effect: the
\* flag stays cleared and no cycle is started afterwards.
C32_EarlyStopTakesEffect ==
    [][\A p \in Inst :
          stop_requested[p] = "start" =>
              /\ ~is_running'[p]
              /\ cycles'[p] = cycles[p]
      ]_vars

\* C33: once every instance is idle, and no refresh of the last run failed,
\* the current snapshot is the statistics of the events persisted at that
\* time.
C33_SnapshotAgreesWhenIdle ==
    (/\ \A p \in Inst : pc[p] = "off" \/ Idle(p)
     /\ \E p \in Inst : Events(p, "refresh") /= {}
     /\ \A p \in Inst : \A i \in Events(p, "refresh") : log[p][i].ok)
        => snapshot = CalculateEventStatistics(dest)

\* number of the commits among the first i events of p that reported > 0
SuccessfulUpTo(p, i) ==
    Cardinality({j \in 1..i : Succeeded(log[p][j])})

\* C34: every successful commit is followed by the fanout and then by the
\* refresh; the fanout gets the count that commit reported and a sequence
\* number that is the number of successful commits of the run so far, so
\* that failed commits do not advance it.
C34_FanoutBeforeRefreshNumbered ==
    \A p \in Inst :
        /\ batch_number[p] = SuccessfulUpTo(p, Len(log[p]))
        /\ \A i \in Events(p, "commit") :
              Succeeded(log[p][i]) =>
                 /\ i = Len(log[p]) => pc[p] = "notifying"
                 /\ i < Len(log[p]) =>
                       /\ log[p][i + 1].type = "notify"
                       /\ log[p][i + 1].count = log[p][i].committed
                       /\ log[p][i + 1].batch = SuccessfulUpTo(p, i)
                 /\ i + 1 = Len(log[p]) => pc[p] = "refreshing"
                 /\ i + 1 < Len(log[p]) => log[p][i + 2].type = "refresh"

\* the second successful batch of a run was announced as number 2 after a
\* batch that failed, and refreshed
C34_Witness ==
    \E p \in Inst : \E i \in Events(p, "commit") : \E j \in Events(p, "notify") :
        /\ FailedCommit(log[p][i])
        /\ i < j
        /\ log[p][j].batch = 2
        /\ j < Len(log[p])

(***************************************************************************)
(* The run statistics.                                                     *)
(***************************************************************************)
Counters(s) == <<s.total_processed, s.total_successful, s.total_failed>>

\* the run whose history is l read no record / could not read / committed
ReadNothing(l)  == l[1].type = "read" /\ l[1].n = 0
CouldNotRead(l) == l[1].type = "read_error"
CommittedSome(l) == \E i \in 1..Len(l) : Succeeded(l[i])

\* C35: total_successful <= total_processed <= total_successful +
\* total_failed at all times; the counters change only when a cycle ends; a
\* cycle that read zero records changes none, a cycle whose read failed adds
\* one failure, and any other cycle adds one to total_processed and one to
\* total_successful if one of its commits reported a count > 0 (whatever
\* its other commits did), otherwise one to total_failed.
C35_RunStatistics ==
    /\ [](\A p \in Inst :
             /\ stats[p].total_successful <= stats[p].total_processed
             /\ stats[p].total_processed
                   <= stats[p].total_successful + stats[p].total_failed)
    /\ [][\A p \in Inst :
             LET c == Counters(stats[p])
                 l == log'[p]
             IN  Counters(stats'[p]) =
                    IF ~CycleEnds(p)        THEN c
                    ELSE IF ReadNothing(l)  THEN c
                    ELSE IF CouldNotRead(l) THEN <<c[1], c[2], c[3] + 1>>
                    ELSE IF CommittedSome(l) THEN <<c[1] + 1, c[2] + 1, c[3]>>
                    ELSE <<c[1] + 1, c[2], c[3] + 1>>
        ]_vars

\* a run with one failed and one successful commit has been counted as
\* successful
C35_Witness ==
    \E p \in Inst :
        /\ Idle(p)
        /\ Counters(stats[p]) = <<1, 1, 0>>
        /\ \E i \in Events(p, "commit") : FailedCommit(log[p][i])
        /\ \E i \in Events(p, "commit") : Succeeded(log[p][i])

\* C36: with a configured batch size of 0 or less, a run whose records all
\* have an identity and were all staged commits each of them as a batch of
\* one, persists them all and returns the number of records read.
C36_EffectiveBatchSizeAtLeastOne ==
    \A p \in Inst :
        (/\ batch_size <= 0
         /\ RunDone(p) /\ TokenOk(p)
         /\ AllHaveIdentity(documents[p])
         /\ \A k \in 1..Len(documents[p]) :
               DocId(documents[p][k]) \in AttemptedIds(p))
        => /\ CommitSizes(log[p]) = [k \in 1..Len(documents[p]) |-> 1]
           /\ \A k \in 1..Len(documents[p]) :
                 DocId(documents[p][k]) \in DOMAIN dest
           /\ returned[p] = Len(documents[p])

\* the keys under which the records of AllDocs that have an identity are
\* persisted
KeysOfIdentified ==
    {DocId(AllDocs[k]) : k \in {i \in 1..Len(AllDocs) : HasIdentity(AllDocs[i])}}

\* C37: a record without collection name or id is skipped by the run: no
\* image request is made for it, it is never staged (so it fills no batch),
\* no commit holds it, and every document of the destination is keyed by
\* the identity of a record that has one, never by the placeholder.
C37_NoIdentityIsSkipped ==
    \A p \in Inst :
        /\ \A k \in 1..Len(documents[p]) :
              ~HasIdentity(documents[p][k]) =>
                 /\ \A i \in Events(p, "enrich") : log[p][i].k /= k
                 /\ DocId(documents[p][k]) \notin AttemptedIds(p)
        /\ \A i \in 1..Len(staged[p]) : HasIdentity(staged[p][i])
        /\ \A i \in Events(p, "commit") :
              Len(log[p][i].ids) <= EffectiveBatchSize(batch_size)
        /\ DOMAIN dest \subseteq KeysOfIdentified

\* a finished run that read a record without id among others and persisted
\* the others
C37_Witness ==
    \E p \in Inst :
        /\ RunDone(p)
        /\ \E k \in 1..Len(documents[p]) : ~HasIdentity(documents[p][k])
        /\ Cardinality(DOMAIN dest) >= 2

\* C38: a run over the recent window (--mode single or a cycle of the
\* continuous loop) receives at most batch_size records from the source,
\* processes records of that list only, and makes at most one commit, one
\* fanout and one refresh.
C38_RecentWindowIsOneBatch ==
    \A p \in Inst :
        (mode[p] /= "full-sync" /\ Events(p, "read") /= {}) =>
            /\ Len(Fetched(p)) <= batch_size
            /\ Len(documents[p]) <= batch_size
            /\ \A i \in Events(p, "enrich") :
                  log[p][i].k \in 1..Len(Fetched(p))
            /\ Cardinality(Events(p, "commit")) <= 1
            /\ Cardinality(Events(p, "notify")) <= 1
            /\ Cardinality(Events(p, "refresh")) <= 1

\* a cycle of the continuous loop that read as many records as the batch
\* size, more than one, and committed them in its one commit
C38_Witness ==
    \E p \in Inst :
        /\ mode[p] = "continuous"
        /\ RunDone(p)
        /\ Events(p, "read") /= {}
        /\ Len(Fetched(p)) = batch_size
        /\ batch_size > 1
        /\ Cardinality(Events(p, "commit")) = 1
        /\ Cardinality(Events(p, "refresh")) = 1
        /\ returned[p] = batch_size

\* where a batch is being committed, announced and counted
Handling == {"committing", "notifying", "refreshing"}

\* C39: the staging list holds at most as many records as the effective
\* batch size, fewer whenever the loop is about to take a record, and grows
\* by one record at a time; it is empty when the handling of a batch ends,
\* whether the commit reported records or none.
C39_StagingBounded ==
    /\ [](\A p \in Inst :
             /\ Len(staged[p]) <= EffectiveBatchSize(batch_size)
             /\ pc[p] = "enriching" =>
                   Len(staged[p]) < EffectiveBatchSize(batch_size))
    /\ [][\A p \in Inst :
             /\ Len(staged'[p]) <= Len(staged[p]) + 1
             /\ (pc[p] \in Handling /\ pc'[p] \notin Handling) =>
                   staged'[p] = <<>>
             /\ (pc[p] = "committing" /\ pc'[p] \in Handling) =>
                   /\ Succeeded(log'[p][Len(log'[p])])
                   /\ pc'[p] = "notifying"
        ]_vars

\* the loop goes on with an empty staging list after the commit of a full
\* batch of more than one record failed
C39_Witness ==
    \E p \in Inst :
        /\ pc[p] = "enriching"
        /\ staged[p] = <<>>
        /\ log[p] /= <<>>
        /\ FailedCommit(log[p][Len(log[p])])
        /\ Len(log[p][Len(log[p])].ids) > 1

====
